---- MODULE Spec2Model ----
(***************************************************************************)
(* Model of moatless/runner/docker_runner.py (DockerRunner): the runner's  *)
(* operations, cut at every await of an engine command, running against a  *)
(* model of the container engine the commands address.                     *)
(***************************************************************************)
EXTENDS Integers, Sequences, FiniteSets, TLC

VARIABLES
    containers,  \* the engine's resource set: one record per container
    nextId,      \* the engine's next container id
    call,        \* per caller: the operation in flight, its position and locals
    left,        \* number of engine-changing operations the callers may still invoke
    keys,        \* the (project_id, trajectory_id) keys the callers use
    reports,     \* per container id: the furthest status get_job_status reported
    mapIn,       \* function harness: the input (for the status mapper, the inspected fields)
    mapOut       \* function harness: the result (for the status mapper, the mapped status)

vars == <<containers, nextId, call, left, keys, reports, mapIn, mapOut>>

---------------------------------------------------------------------------
(* Bounds *)

MaxCalls == 3
MaxCreates == 2
MaxDriverCalls == 2
MaxBulkCalls == 2
Callers == {"c1", "c2"}

---------------------------------------------------------------------------
(* Values *)

None == "None"
NoId == <<>>
NoName == <<"no-name">>
ZeroTime == "0001-01-01T00:00:00Z"
SomeTime == "2024-01-01T00:00:00Z"

PENDING == "PENDING"
RUNNING == "RUNNING"
COMPLETED == "COMPLETED"
FAILED == "FAILED"
CANCELED == "CANCELED"
STOPPED == "STOPPED"
JobStatus == {PENDING, RUNNING, COMPLETED, FAILED, CANCELED, STOPPED}

\* ids are sequences of characters
P1 == <<"p">>
P2 == <<"q", "/">>
T1 == <<"t">>
TBad == <<"x">>
T2 == <<"t", "t">>
P3 == <<"q", "-">>
ProjectIds == {P1, P2}
TrajectoryIds == {T1, TBad}
Keys == {<<P1, T1>>, <<P2, T1>>, <<P1, TBad>>}

\* the instances the dataset index holds
_moatless_instances == {T1, T2}

---------------------------------------------------------------------------
(* Job identity and labelling *)

LegalChars == {"p", "q", "t", "u", "x", "-"}
MaxLabelLen == 3

Min(a, b) == IF a < b THEN a ELSE b

sanitize_label(v) ==
    [i \in 1..Min(Len(v), MaxLabelLen) |-> IF v[i] \in LegalChars THEN v[i] ELSE "-"]

create_resource_id(project_id, trajectory_id, prefix) ==
    <<prefix>> \o sanitize_label(project_id) \o <<"-">> \o sanitize_label(trajectory_id)

create_labels(project_id, trajectory_id) ==
    [project_id |-> sanitize_label(project_id),
     trajectory_id |-> sanitize_label(trajectory_id),
     managed |-> TRUE]

_container_name(project_id, trajectory_id) ==
    create_resource_id(project_id, trajectory_id, "moatless")

---------------------------------------------------------------------------
(* Status mapper *)

lower(s) == IF s \in {"true", "True", "TRUE"} THEN "true"
            ELSE IF s \in {"false", "False"} THEN "false" ELSE s

\* variants of the mapper, each with one branch changed
_parse_container_status_RemovingRunning(status, running, exit_code) ==
    IF status = "running" \/ lower(running) = "true" THEN RUNNING
    ELSE IF status = "created" THEN PENDING
    ELSE IF status = "exited" THEN (IF exit_code = "0" THEN COMPLETED ELSE FAILED)
    ELSE IF status = "restarting" THEN RUNNING
    ELSE IF status = "paused" THEN RUNNING
    ELSE IF status = "removing" THEN RUNNING
    ELSE FAILED

_parse_container_status_RemovingCanceled(status, running, exit_code) ==
    IF status = "running" \/ lower(running) = "true" THEN RUNNING
    ELSE IF status = "created" THEN PENDING
    ELSE IF status = "exited" THEN (IF exit_code = "0" THEN COMPLETED ELSE FAILED)
    ELSE IF status = "restarting" THEN RUNNING
    ELSE IF status = "paused" THEN RUNNING
    ELSE IF status = "removing" THEN CANCELED
    ELSE FAILED

_parse_container_status_ExitedFailed(status, running, exit_code) ==
    IF status = "running" \/ lower(running) = "true" THEN RUNNING
    ELSE IF status = "created" THEN PENDING
    ELSE IF status = "exited" THEN FAILED
    ELSE IF status = "restarting" THEN RUNNING
    ELSE IF status = "paused" THEN RUNNING
    ELSE IF status = "removing" THEN STOPPED
    ELSE FAILED

_parse_container_status(status, running, exit_code) ==
    IF status = "running" \/ lower(running) = "true" THEN RUNNING
    ELSE IF status = "created" THEN PENDING
    ELSE IF status = "exited" THEN (IF exit_code = "0" THEN COMPLETED ELSE FAILED)
    ELSE IF status = "restarting" THEN RUNNING
    ELSE IF status = "paused" THEN RUNNING
    ELSE IF status = "removing" THEN STOPPED
    ELSE FAILED

\* variants of the mapping of the inspect output
MapInspectOutput_StartedOnly(info) ==
    IF Len(info) < 5 THEN None
    ELSE IF info[4] # ZeroTime THEN RUNNING
    ELSE _parse_container_status(info[1], info[2], info[3])

MapInspectOutput_SixFields(info) ==
    IF Len(info) < 6 THEN None
    ELSE IF info[4] # ZeroTime /\ info[5] = ZeroTime THEN RUNNING
    ELSE _parse_container_status(info[1], info[2], info[3])

\* the part of _get_container_status that follows a successful inspect;
\* info is the comma-split output
MapInspectOutput(info) ==
    IF Len(info) < 5 THEN None
    ELSE IF info[4] # ZeroTime /\ info[5] = ZeroTime THEN RUNNING
    ELSE _parse_container_status(info[1], info[2], info[3])

\* variant: a failed inspect reads as a failed job
StatusFromInspect_FailClosed(res) ==
    IF res.rc = 0 THEN MapInspectOutput(res.out)
    ELSE FAILED

\* res is the finished inspect process: [rc, out, err]
StatusFromInspect(res) ==
    IF res.rc = 0 THEN MapInspectOutput(res.out)
    ELSE IF res.err = "No such object" THEN None
    ELSE None

---------------------------------------------------------------------------
(* The container engine, as the runner's commands see it *)

ExitCodeStr(n) == IF n = 0 THEN "0" ELSE IF n = 1 THEN "1"
                  ELSE IF n = 127 THEN "127" ELSE "137"

\* docker inspect --format
\* {{.State.Status}},{{.State.Running}},{{.State.ExitCode}},{{.State.StartedAt}},{{.State.FinishedAt}}
FormatState(k) ==
    <<k.Status, IF k.Running THEN "true" ELSE "false", ExitCodeStr(k.ExitCode),
      k.StartedAt, k.FinishedAt>>

ByName(n) == {k \in containers : k.name = n}

\* docker inspect <name>; fail is a failure of the engine command itself
EngineInspect(n, fail) ==
    IF fail THEN [rc |-> 1, out |-> <<>>, err |-> "Cannot connect to the Docker daemon"]
    ELSE IF ByName(n) = {} THEN [rc |-> 1, out |-> <<>>, err |-> "No such object"]
    ELSE [rc |-> 0, out |-> FormatState(CHOOSE k \in ByName(n) : TRUE), err |-> ""]

\* the canonical status the mapper gives a container's present state
StatusOf(k) == StatusFromInspect([rc |-> 0, out |-> FormatState(k), err |-> ""])

\* docker stop: a running container is stopped (killed after the grace period);
\* a container that is not running is left as it is
Stopped(k) ==
    IF k.Running
    THEN [k EXCEPT !.Status = "exited", !.Running = FALSE, !.ExitCode = 137,
                   !.FinishedAt = SomeTime]
    ELSE k

\* docker rm -f: the container is killed if it runs, then marked for removal
Removing(k) == [Stopped(k) EXCEPT !.Status = "removing"]

\* a container as docker run creates it, before it is started
NewContainer(id, args) ==
    [id |-> id,
     name |-> IF args.name = NoName THEN <<"auto", id>> ELSE args.name,
     labels |-> args.labels,
     Status |-> "created", Running |-> FALSE, ExitCode |-> 0,
     StartedAt |-> ZeroTime, FinishedAt |-> ZeroTime]

---------------------------------------------------------------------------
(* Callers *)

Idle ==
    [op |-> "none", p |-> NoId, t |-> NoId, pc |-> "idle",
     exists |-> FALSE, status |-> None, ret |-> None, cleaned |-> None,
     cid |-> 0, ids |-> {}, cmds |-> <<>>,
     lines |-> <<>>, jobs |-> <<>>, raw |-> {}, details |-> {},
     live |-> 0, old |-> 0, over |-> FALSE, existed |-> FALSE,
     seen |-> 0, bad |-> {}, mark |-> 0, code |-> 0]

Name(c) == _container_name(call[c].p, call[c].t)

Cmd(c, cmd) == [cmd |-> cmd, name |-> Name(c), ids |-> {}]

\* the arguments of docker run that identify the resource
DockerRunArgs_NoName(project_id, trajectory_id) ==
    [name |-> NoName, labels |-> create_labels(project_id, trajectory_id)]

DockerRunArgs(project_id, trajectory_id) ==
    [name |-> _container_name(project_id, trajectory_id),
     labels |-> create_labels(project_id, trajectory_id)]

\* the containers that carry a key's labels
OfKey(p, t) == {k \in containers : k.labels = create_labels(p, t)}

\* a caller invokes an operation when its last one has returned
CanInvoke(c) == call[c].pc \in {"idle", "done"}

\* the operations that change the engine are counted and capped
Counted == left > 0 /\ left' = left - 1

\* the caller's record when it enters operation op at position pc
Invoked(op, p, t, pc) ==
    [Idle EXCEPT !.op = op, !.p = p, !.t = t, !.pc = pc]

\* the id of the container named n, 0 when there is none
IdOf(n) == IF ByName(n) = {} THEN 0 ELSE (CHOOSE k \in ByName(n) : TRUE).id

\* the id of the container named n when its status is RUNNING, 0 otherwise
RunningId(n) ==
    IF \E k \in ByName(n) : StatusOf(k) = RUNNING THEN IdOf(n) ELSE 0

Set(c, r) == call' = [call EXCEPT ![c] = r]

Issued(c, cmd) == Append(call[c].cmds, Cmd(c, cmd))

\* the commands of the call that exited non-zero, once cmd has exited with rc
Exited(c, cmd, rc) == IF rc = 0 THEN call[c].bad ELSE call[c].bad \cup {cmd}

Rc(failed) == IF failed THEN 1 ELSE 0

EngineSame == UNCHANGED <<containers, nextId>>
HarnessSame == UNCHANGED <<keys, mapIn, mapOut>>

---------------------------------------------------------------------------
(* start_job *)

StartJobCall(c) ==
    /\ CanInvoke(c)
    /\ Counted
    /\ \E key \in keys : Set(c, Invoked("start_job", key[1], key[2], "sj_exists"))
    /\ EngineSame /\ HarnessSame /\ UNCHANGED reports

\* if await self._container_exists(container_name)
SjExists(c) ==
    /\ call[c].pc = "sj_exists"
    /\ \E fail \in BOOLEAN :
        LET ex == EngineInspect(Name(c), fail).rc = 0 IN
        Set(c, [call[c] EXCEPT !.exists = ex,
                               !.bad = Exited(c, "inspect", Rc(~ex)),
                               !.live = RunningId(Name(c)),
                               !.cmds = Issued(c, "inspect"),
                               !.pc = IF ex THEN "sj_status" ELSE "sj_provision"])
    /\ EngineSame /\ HarnessSame /\ UNCHANGED <<left, reports>>

\* variant: a RUNNING container is removed and restarted too
Restartable_WithRunning == {COMPLETED, FAILED, PENDING, RUNNING}

\* variant: a finished resource is not replaced
Restartable_PendingOnly == {PENDING}

\* the statuses start_job removes and restarts
Restartable == {COMPLETED, FAILED, PENDING}

\* container_status = await self._get_container_status(container_name)
SjStatus(c) ==
    /\ call[c].pc = "sj_status"
    /\ \E fail \in BOOLEAN :
        LET st == StatusFromInspect(EngineInspect(Name(c), fail)) IN
        Set(c, [call[c] EXCEPT !.status = st,
                               !.bad = Exited(c, "inspect", EngineInspect(Name(c), fail).rc),
                               !.live = IF RunningId(Name(c)) = @ THEN @ ELSE 0,
                               !.old = IF st \in Restartable THEN IdOf(Name(c)) ELSE 0,
                               !.cmds = Issued(c, "inspect"),
                               !.ret = IF st \in Restartable THEN None ELSE "False",
                               !.pc = IF st \in Restartable THEN "cl_exists" ELSE "done"])
    /\ EngineSame /\ HarnessSame /\ UNCHANGED <<left, reports>>

\* variant: the handler of the provisioning try block returns False
SjProvision_Swallowed(c) ==
    /\ call[c].pc = "sj_provision"
    /\ IF call[c].t \in _moatless_instances
       THEN Set(c, [call[c] EXCEPT !.pc = "sj_run"])
       ELSE Set(c, [call[c] EXCEPT !.ret = "False", !.pc = "done"])
    /\ EngineSame /\ HarnessSame /\ UNCHANGED <<left, reports>>

\* instance_tmp = get_swebench_instance(instance_id=trajectory_id), inside the try
\* whose handler logs and re-raises
SjProvision(c) ==
    /\ call[c].pc = "sj_provision"
    /\ IF call[c].t \in _moatless_instances
       THEN Set(c, [call[c] EXCEPT !.pc = "sj_run"])
       ELSE Set(c, [call[c] EXCEPT !.ret = "raised", !.pc = "done"])
    /\ EngineSame /\ HarnessSame /\ UNCHANGED <<left, reports>>

\* variant: the return code of docker run is not looked at
RunResult_Ignored(returncode) == "True"

\* if returncode != 0: return False ... return True
RunResult(returncode) == IF returncode # 0 THEN "False" ELSE "True"

\* variant: the name is looked up again and no create is issued when it is taken
SjRun_CheckedCreate(c) ==
    /\ call[c].pc = "sj_run"
    /\ LET args == DockerRunArgs(call[c].p, call[c].t) IN
       \E fail \in BOOLEAN :
        IF ByName(args.name) # {}
        THEN /\ Set(c, [call[c] EXCEPT !.ret = "False", !.pc = "done"])
             /\ EngineSame
        ELSE IF fail
        THEN /\ Set(c, [call[c] EXCEPT !.cmds = Issued(c, "run"),
                                       !.bad = Exited(c, "run", 1) \cup {"unreachable"},
                                       !.ret = RunResult(1), !.pc = "done"])
             /\ EngineSame
        ELSE /\ nextId <= MaxCreates
             /\ containers' = containers \cup {NewContainer(nextId, args)}
             /\ nextId' = nextId + 1
             /\ Set(c, [call[c] EXCEPT !.cmds = Issued(c, "run"),
                                       !.over = \E k \in containers : k.id = call[c].old,
                                       !.cid = nextId, !.pc = "sj_run_wait"])
    /\ HarnessSame /\ UNCHANGED <<left, reports>>

\* stdout, returncode = await self._run_docker_command(*cmd): the engine creates
\* the container, unless the command fails or the name is taken
SjRun(c) ==
    /\ call[c].pc = "sj_run"
    /\ LET args == DockerRunArgs(call[c].p, call[c].t) IN
       \E fail \in BOOLEAN :
        IF fail \/ ByName(args.name) # {}
        THEN /\ Set(c, [call[c] EXCEPT !.cmds = Issued(c, "run"),
                                       !.bad = Exited(c, "run", 1) \cup
                                               (IF fail THEN {"unreachable"} ELSE {}),
                                       !.over = \E k \in containers : k.id = call[c].old,
                                       !.ret = RunResult(1), !.pc = "done"])
             /\ EngineSame
        ELSE /\ nextId <= MaxCreates
             /\ containers' = containers \cup {NewContainer(nextId, args)}
             /\ nextId' = nextId + 1
             /\ Set(c, [call[c] EXCEPT !.cmds = Issued(c, "run"),
                                       !.over = \E k \in containers : k.id = call[c].old,
                                       !.cid = nextId, !.pc = "sj_run_wait"])
    /\ HarnessSame /\ UNCHANGED <<left, reports>>

\* docker run -d starts the container it created and returns; returncode != 0
\* when the start fails, which leaves the container in state created
SjRunWait(c) ==
    /\ call[c].pc = "sj_run_wait"
    /\ LET mine == {k \in containers : k.id = call[c].cid /\ k.Status = "created"} IN
       \E ok \in BOOLEAN :
        IF ok /\ mine # {}
        THEN /\ containers' = (containers \ mine) \cup
                    {[k EXCEPT !.Status = "running", !.Running = TRUE,
                               !.StartedAt = SomeTime] : k \in mine}
             /\ Set(c, [call[c] EXCEPT !.ret = RunResult(0), !.pc = "done"])
        ELSE /\ containers' = (containers \ mine) \cup
                    {[k EXCEPT !.ExitCode = 127] : k \in mine}
             /\ Set(c, [call[c] EXCEPT !.bad = Exited(c, "run", 1),
                                       !.ret = RunResult(1), !.pc = "done"])
    /\ HarnessSame /\ UNCHANGED <<nextId, left, reports>>

---------------------------------------------------------------------------
(* _cleanup_container, as start_job, cancel_job and cleanup_job call it *)

\* where the caller goes on when _cleanup_container has returned r
AfterCleanup(c, r, cmds) ==
    IF call[c].op = "start_job"
    THEN [call[c] EXCEPT !.cleaned = r, !.cmds = cmds, !.pc = "sj_provision"]
    ELSE [call[c] EXCEPT !.cleaned = r, !.cmds = cmds, !.ret = "void", !.pc = "done"]

\* the same, the last command having exited with rc
AfterCommand(c, r, cmd, rc) ==
    [AfterCleanup(c, r, Issued(c, cmd)) EXCEPT !.bad = Exited(c, cmd, rc)]

\* variant: the existence check is left out
ClExists_NoCheck(c) ==
    /\ call[c].pc = "cl_exists"
    /\ Set(c, [call[c] EXCEPT !.existed = ByName(Name(c)) # {}, !.seen = IdOf(Name(c)),
                               !.pc = "cl_stop"])
    /\ EngineSame /\ HarnessSame /\ UNCHANGED <<left, reports>>

\* if not await self._container_exists(container_name): return True
ClExists(c) ==
    /\ call[c].pc = "cl_exists"
    /\ \E fail \in BOOLEAN :
        IF EngineInspect(Name(c), fail).rc = 0
        THEN Set(c, [call[c] EXCEPT !.cmds = Issued(c, "inspect"),
                                    !.existed = TRUE, !.seen = IdOf(Name(c)),
                                    !.pc = "cl_stop"])
        ELSE Set(c, [AfterCommand(c, "True", "inspect", 1) EXCEPT
                        !.existed = ByName(Name(c)) # {}, !.seen = IdOf(Name(c))])
    /\ EngineSame /\ HarnessSame /\ UNCHANGED <<left, reports>>

\* docker stop <name>
ClStop(c) ==
    /\ call[c].pc = "cl_stop"
    /\ \E fail \in BOOLEAN :
        IF fail \/ ByName(Name(c)) = {}
        THEN /\ Set(c, AfterCommand(c, "False", "stop", 1))
             /\ UNCHANGED containers
        ELSE /\ containers' = (containers \ ByName(Name(c))) \cup
                    {Stopped(k) : k \in ByName(Name(c))}
             /\ Set(c, [call[c] EXCEPT !.cmds = Issued(c, "stop"), !.pc = "cl_rm"])
    /\ HarnessSame /\ UNCHANGED <<nextId, left, reports>>

\* docker rm -f <name>: issued; the engine marks the container for removal
ClRm(c) ==
    /\ call[c].pc = "cl_rm"
    /\ \E fail \in BOOLEAN, rc0 \in BOOLEAN :
        LET there == ByName(Name(c)) IN
        IF fail \/ (\E k \in there : k.Status = "removing")
        THEN /\ Set(c, AfterCommand(c, "False", "rm", 1))
             /\ UNCHANGED containers
        ELSE IF there = {}
        THEN \* rm -f of a missing container: the exit code depends on the engine version
             /\ Set(c, AfterCommand(c, IF rc0 THEN "True" ELSE "False", "rm", Rc(~rc0)))
             /\ UNCHANGED containers
        ELSE /\ containers' = (containers \ there) \cup {Removing(k) : k \in there}
             /\ Set(c, [call[c] EXCEPT !.cmds = Issued(c, "rm"),
                                       !.cid = (CHOOSE k \in there : TRUE).id,
                                       !.pc = "cl_rm_wait"])
    /\ HarnessSame /\ UNCHANGED <<nextId, left, reports>>

\* the engine finishes the removal and the rm command returns 0
ClRmWait(c) ==
    /\ call[c].pc = "cl_rm_wait"
    /\ containers' = {k \in containers : k.id # call[c].cid}
    /\ Set(c, AfterCleanup(c, "True", call[c].cmds))
    /\ HarnessSame /\ UNCHANGED <<nextId, left, reports>>

\* cleanup_job(project_id, trajectory_id)
CleanupJobCall(c) ==
    /\ CanInvoke(c)
    /\ Counted
    /\ \E key \in keys : Set(c, Invoked("cleanup_job", key[1], key[2], "cl_exists"))
    /\ EngineSame /\ HarnessSame /\ UNCHANGED reports

\* cancel_job(project_id, trajectory_id) with a trajectory_id
CancelJobCall(c) ==
    /\ CanInvoke(c)
    /\ Counted
    /\ \E key \in keys : Set(c, Invoked("cancel_job", key[1], key[2], "cl_exists"))
    /\ EngineSame /\ HarnessSame /\ UNCHANGED reports

---------------------------------------------------------------------------
(* cancel_job(project_id) without a trajectory_id *)

CancelProjectCall(c) ==
    /\ CanInvoke(c)
    /\ Counted
    /\ \E p \in ProjectIds :
        Set(c, [Invoked("cancel_project", p, NoId, "cb_list") EXCEPT !.mark = nextId])
    /\ EngineSame /\ HarnessSame /\ UNCHANGED reports

\* docker ps -q --filter label=project_id=<sanitized> --filter label=moatless.managed=true
\* (no -a: the engine lists the running containers only)
PsQuiet(sanitized_project_id) ==
    {k.id : k \in {x \in containers : /\ x.Running
                                      /\ x.labels.managed
                                      /\ x.labels.project_id = sanitized_project_id}}

CbList(c) ==
    /\ call[c].pc = "cb_list"
    /\ \E fail \in BOOLEAN :
        LET ids == PsQuiet(sanitize_label(call[c].p))
            cmds == Append(call[c].cmds, [cmd |-> "ps", name |-> NoName, ids |-> {}])
        IN  IF fail \/ ids = {}
            THEN Set(c, [call[c] EXCEPT !.cmds = cmds, !.bad = Exited(c, "ps", Rc(fail)),
                                        !.ret = "void", !.pc = "done"])
            ELSE Set(c, [call[c] EXCEPT !.cmds = cmds, !.ids = ids, !.pc = "cb_stop"])
    /\ EngineSame /\ HarnessSame /\ UNCHANGED <<left, reports>>

\* variant: only one of the listed ids is stopped
CbStop_FirstOnly(c) ==
    /\ call[c].pc = "cb_stop"
    /\ \E fail \in BOOLEAN :
        LET first == {CHOOSE id \in call[c].ids \cup {0} : id \in call[c].ids \/ call[c].ids = {}} IN
        /\ containers' = IF fail THEN containers
                         ELSE {IF k.id \in first THEN Stopped(k) ELSE k : k \in containers}
        /\ Set(c, [call[c] EXCEPT
                !.cmds = Append(@, [cmd |-> "stop", name |-> NoName, ids |-> first]),
                !.bad = Exited(c, "stop",
                            Rc(fail \/ \E id \in first : \A k \in containers : k.id # id)),
                !.pc = "cb_rm"])
    /\ HarnessSame /\ UNCHANGED <<nextId, left, reports>>

\* docker stop <id> ... ; the return code is not looked at
CbStop(c) ==
    /\ call[c].pc = "cb_stop"
    /\ \E fail \in BOOLEAN :
        /\ containers' = IF fail THEN containers
                         ELSE {IF k.id \in call[c].ids THEN Stopped(k) ELSE k : k \in containers}
        /\ Set(c, [call[c] EXCEPT
                !.cmds = Append(@, [cmd |-> "stop", name |-> NoName, ids |-> call[c].ids]),
                !.bad = Exited(c, "stop",
                            Rc(fail \/ \E id \in call[c].ids : \A k \in containers : k.id # id)),
                !.pc = "cb_rm"])
    /\ HarnessSame /\ UNCHANGED <<nextId, left, reports>>

\* docker rm <id> ... (no -f: a running container is refused)
CbRm(c) ==
    /\ call[c].pc = "cb_rm"
    /\ \E fail \in BOOLEAN :
        /\ containers' = IF fail THEN containers
                         ELSE {k \in containers :
                                ~(k.id \in call[c].ids /\ ~k.Running /\ k.Status # "removing")}
        /\ Set(c, [call[c] EXCEPT
                !.cmds = Append(@, [cmd |-> "rm", name |-> NoName, ids |-> call[c].ids]),
                !.bad = Exited(c, "rm",
                            Rc(fail \/ \E id \in call[c].ids :
                                    \A k \in containers :
                                        k.id = id => k.Running \/ k.Status = "removing")),
                !.ret = "void", !.pc = "done"])
    /\ HarnessSame /\ UNCHANGED <<nextId, left, reports>>

---------------------------------------------------------------------------
(* get_job_status, job_exists *)

\* the order the lifecycle gives the statuses; STOPPED stands outside it
Rank(st) == IF st = PENDING THEN 1 ELSE IF st = RUNNING THEN 2
            ELSE IF st \in {COMPLETED, FAILED} THEN 3 ELSE 0

\* the furthest status reported for container id, once st is reported too
Reported(id, st) ==
    IF Rank(st) >= Rank(reports[id]) /\ Rank(st) > 0
    THEN [reports EXCEPT ![id] = st]
    ELSE reports

\* return await self._get_container_status(container_name)
GetJobStatus(c) ==
    /\ CanInvoke(c)
    /\ UNCHANGED left
    /\ \E key \in keys, fail \in BOOLEAN :
        LET n == _container_name(key[1], key[2])
            st == StatusFromInspect(EngineInspect(n, fail))
        IN  /\ Set(c, [Invoked("get_job_status", key[1], key[2], "done") EXCEPT
                        !.ret = st, !.existed = ByName(n) # {},
                        !.exists = EngineInspect(n, fail).rc = 0,
                        !.bad = IF EngineInspect(n, fail).rc = 0 THEN {} ELSE {"inspect"},
                        !.status = IF st = None \/ IdOf(n) = 0 THEN None
                                   ELSE reports[IdOf(n)],
                        !.cmds = <<[cmd |-> "inspect", name |-> n, ids |-> {}]>>])
            /\ reports' = IF st = None \/ IdOf(n) = 0 THEN reports
                          ELSE Reported(IdOf(n), st)
    /\ EngineSame /\ HarnessSame

\* job_status = await self.get_job_status(...); return job_status is not None
JobExists(c) ==
    /\ CanInvoke(c)
    /\ UNCHANGED left
    /\ \E key \in keys, fail \in BOOLEAN :
        LET n == _container_name(key[1], key[2])
            st == StatusFromInspect(EngineInspect(n, fail))
        IN  /\ Set(c, [Invoked("job_exists", key[1], key[2], "done") EXCEPT
                        !.ret = IF st # None THEN "True" ELSE "False",
                        !.existed = ByName(n) # {},
                        !.exists = EngineInspect(n, fail).rc = 0,
                        !.bad = IF EngineInspect(n, fail).rc = 0 THEN {} ELSE {"inspect"},
                        !.cmds = <<[cmd |-> "inspect", name |-> n, ids |-> {}]>>])
    /\ EngineSame /\ HarnessSame /\ UNCHANGED reports

---------------------------------------------------------------------------
(* get_jobs *)

RECURSIVE NewestFirst(_)
\* docker ps lists the newest container first
NewestFirst(S) ==
    IF S = {} THEN <<>>
    ELSE LET k == CHOOSE x \in S : \A y \in S : y.id <= x.id
         IN  <<k>> \o NewestFirst(S \ {k})

\* variant: the filter on the managed marker is left out
PsAll_NoMarker(project) ==
    LET shown == {k \in containers :
                    project # NoId => k.labels.project_id = sanitize_label(project)}
        listed == NewestFirst(shown)
    IN  [i \in 1..Len(listed) |->
            [name |-> listed[i].name,
             project_id |-> listed[i].labels.project_id,
             trajectory_id |-> listed[i].labels.trajectory_id]]

\* docker ps -a --format '{{.Names}}|{{.Label "project_id"}}|{{.Label "trajectory_id"}}|...'
\* filtered by the managed marker and, when project is given, by the project label
PsAll(project) ==
    LET shown == {k \in containers :
                    /\ k.labels.managed
                    /\ project # NoId => k.labels.project_id = sanitize_label(project)}
        listed == NewestFirst(shown)
    IN  [i \in 1..Len(listed) |->
            [name |-> listed[i].name,
             project_id |-> listed[i].labels.project_id,
             trajectory_id |-> listed[i].labels.trajectory_id]]

GetJobsCall(c) ==
    /\ CanInvoke(c)
    /\ \E p \in {key[1] : key \in keys} \cup {NoId} :
        Set(c, [Invoked("get_jobs", p, NoId, "gj_list") EXCEPT !.mark = nextId])
    /\ EngineSame /\ HarnessSame /\ UNCHANGED <<left, reports>>

\* the listing; a failed command or an empty output returns []
GjList(c) ==
    /\ call[c].pc = "gj_list"
    /\ \E fail \in BOOLEAN :
        LET out == PsAll(call[c].p)
            cmds == Append(call[c].cmds, [cmd |-> "ps", name |-> NoName, ids |-> {}])
        IN  IF fail \/ out = <<>>
            THEN Set(c, [call[c] EXCEPT !.cmds = cmds, !.bad = Exited(c, "ps", Rc(fail)),
                                        !.ret = "list", !.pc = "done"])
            ELSE Set(c, [call[c] EXCEPT !.cmds = cmds, !.lines = out, !.pc = "gj_inspect"])
    /\ EngineSame /\ HarnessSame /\ UNCHANGED <<left, reports>>

\* variant: ended_at is set whatever the status
JobInfo_AlwaysEnded(line, status) ==
    [id |-> <<line.project_id, line.trajectory_id>>,
     project_id |-> line.project_id,
     trajectory_id |-> line.trajectory_id,
     status |-> status,
     ended_at |-> TRUE]

\* ended_at=datetime.now() if status in [COMPLETED, FAILED, CANCELED] else None
JobInfo(line, status) ==
    [id |-> <<line.project_id, line.trajectory_id>>,
     project_id |-> line.project_id,
     trajectory_id |-> line.trajectory_id,
     status |-> status,
     ended_at |-> status \in {COMPLETED, FAILED, CANCELED}]

\* variant: a listed container that has ended is removed (a time-to-live enforced
\* inside get_jobs)
GjInspect_Reaping(c) ==
    /\ call[c].pc = "gj_inspect"
    /\ \E fail \in BOOLEAN :
        LET line == Head(call[c].lines)
            rest == Tail(call[c].lines)
            skip == line.project_id = <<>> \/ line.trajectory_id = <<>>
            st == StatusFromInspect(EngineInspect(line.name, fail))
            jobs == IF skip \/ st = None THEN call[c].jobs
                    ELSE Append(call[c].jobs, JobInfo(line, st))
        IN  /\ skip => ~fail
            /\ Set(c, [call[c] EXCEPT
                    !.lines = rest, !.jobs = jobs,
                    !.existed = IF skip THEN @ ELSE ByName(line.name) # {},
                    !.bad = IF skip THEN @
                            ELSE Exited(c, "inspect", EngineInspect(line.name, fail).rc),
                    !.cmds = IF skip THEN @
                             ELSE Append(@, [cmd |-> "inspect", name |-> line.name, ids |-> {}]),
                    !.ret = IF rest = <<>> THEN "list" ELSE @,
                    !.pc = IF rest = <<>> THEN "done" ELSE @])
            /\ containers' = IF st \in {COMPLETED, FAILED}
                             THEN containers \ ByName(line.name) ELSE containers
    /\ HarnessSame /\ UNCHANGED <<nextId, left, reports>>

\* variant: the loop ends at the first line whose status is absent
GjInspect_StopAtAbsent(c) ==
    /\ call[c].pc = "gj_inspect"
    /\ \E fail \in BOOLEAN :
        LET line == Head(call[c].lines)
            skip == line.project_id = <<>> \/ line.trajectory_id = <<>>
            st == StatusFromInspect(EngineInspect(line.name, fail))
            rest == IF ~skip /\ st = None THEN <<>> ELSE Tail(call[c].lines)
            jobs == IF skip \/ st = None THEN call[c].jobs
                    ELSE Append(call[c].jobs, JobInfo(line, st))
        IN  /\ skip => ~fail
            /\ Set(c, [call[c] EXCEPT
                    !.lines = rest, !.jobs = jobs,
                    !.existed = IF skip THEN @ ELSE ByName(line.name) # {},
                    !.bad = IF skip THEN @
                            ELSE Exited(c, "inspect", EngineInspect(line.name, fail).rc),
                    !.cmds = IF skip THEN @
                             ELSE Append(@, [cmd |-> "inspect", name |-> line.name, ids |-> {}]),
                    !.ret = IF rest = <<>> THEN "list" ELSE @,
                    !.pc = IF rest = <<>> THEN "done" ELSE @])
    /\ EngineSame /\ HarnessSame /\ UNCHANGED <<left, reports>>

\* one turn of the loop over the listed lines
GjInspect(c) ==
    /\ call[c].pc = "gj_inspect"
    /\ \E fail \in BOOLEAN :
        LET line == Head(call[c].lines)
            rest == Tail(call[c].lines)
            skip == line.project_id = <<>> \/ line.trajectory_id = <<>>
            st == StatusFromInspect(EngineInspect(line.name, fail))
            jobs == IF skip \/ st = None THEN call[c].jobs
                    ELSE Append(call[c].jobs, JobInfo(line, st))
        IN  /\ skip => ~fail
            /\ Set(c, [call[c] EXCEPT
                    !.lines = rest, !.jobs = jobs,
                    !.existed = IF skip THEN @ ELSE ByName(line.name) # {},
                    !.bad = IF skip THEN @
                            ELSE Exited(c, "inspect", EngineInspect(line.name, fail).rc),
                    !.cmds = IF skip THEN @
                             ELSE Append(@, [cmd |-> "inspect", name |-> line.name, ids |-> {}]),
                    !.ret = IF rest = <<>> THEN "list" ELSE @,
                    !.pc = IF rest = <<>> THEN "done" ELSE @])
    /\ EngineSame /\ HarnessSame /\ UNCHANGED <<left, reports>>

---------------------------------------------------------------------------
(* get_job_logs, get_job_details *)

\* docker logs <name>: None when the command fails or prints nothing
LogsResult(n, nothing) ==
    IF nothing \/ ByName(n) = {} THEN None ELSE "logs"

\* variant: the container is stopped once its logs are read
GetJobLogs_Stopping(c) ==
    /\ CanInvoke(c)
    /\ \E key \in keys, fail \in BOOLEAN, empty \in BOOLEAN :
        LET n == _container_name(key[1], key[2]) IN
        /\ Set(c, [Invoked("get_job_logs", key[1], key[2], "done") EXCEPT
                    !.ret = LogsResult(n, fail \/ empty),
                    !.existed = ByName(n) # {},
                    !.bad = IF fail \/ ByName(n) = {} THEN {"logs"} ELSE {},
                    !.cmds = <<[cmd |-> "logs", name |-> n, ids |-> {}]>>])
        /\ containers' = (containers \ ByName(n)) \cup {Stopped(k) : k \in ByName(n)}
    /\ HarnessSame /\ UNCHANGED <<nextId, left, reports>>

\* get_job_logs(project_id, trajectory_id): the logs, None when the command fails
\* or prints nothing
GetJobLogs(c) ==
    /\ CanInvoke(c)
    /\ \E key \in keys, fail \in BOOLEAN, empty \in BOOLEAN :
        LET n == _container_name(key[1], key[2]) IN
        Set(c, [Invoked("get_job_logs", key[1], key[2], "done") EXCEPT
                    !.ret = LogsResult(n, fail \/ empty),
                    !.existed = ByName(n) # {},
                    !.bad = IF fail \/ ByName(n) = {} THEN {"logs"} ELSE {},
                    !.cmds = <<[cmd |-> "logs", name |-> n, ids |-> {}]>>])
    /\ EngineSame /\ HarnessSame /\ UNCHANGED <<left, reports>>

\* the RunnerInfo's status: RunnerStatus.ERROR when docker info exits non-zero
RunnerInfo(return_code) ==
    IF return_code # 0 THEN "RunnerStatus.ERROR" ELSE "RunnerStatus.RUNNING"

\* get_runner_info()
GetRunnerInfo(c) ==
    /\ CanInvoke(c)
    /\ \E fail \in BOOLEAN :
        Set(c, [Invoked("get_runner_info", NoId, NoId, "done") EXCEPT
                    !.ret = RunnerInfo(Rc(fail)),
                    !.bad = IF fail THEN {"info"} ELSE {},
                    !.cmds = <<[cmd |-> "info", name |-> NoName, ids |-> {}]>>])
    /\ EngineSame /\ HarnessSame /\ UNCHANGED <<left, reports>>

GetJobDetailsCall(c) ==
    /\ CanInvoke(c)
    /\ \E key \in keys : Set(c, Invoked("get_job_details", key[1], key[2], "gd_exists"))
    /\ EngineSame /\ HarnessSame /\ UNCHANGED <<left, reports>>

\* if not await self._container_exists(container_name): return None
GdExists(c) ==
    /\ call[c].pc = "gd_exists"
    /\ \E fail \in BOOLEAN :
        IF EngineInspect(Name(c), fail).rc = 0
        THEN Set(c, [call[c] EXCEPT !.cmds = Issued(c, "inspect"), !.pc = "gd_inspect"])
        ELSE Set(c, [call[c] EXCEPT !.cmds = Issued(c, "inspect"),
                                    !.bad = Exited(c, "inspect", 1),
                                    !.ret = None, !.pc = "done"])
    /\ EngineSame /\ HarnessSame /\ UNCHANGED <<left, reports>>

\* container_info, return_code = docker inspect <name>; container_data is its JSON
GdInspect(c) ==
    /\ call[c].pc = "gd_inspect"
    /\ \E fail \in BOOLEAN :
        IF EngineInspect(Name(c), fail).rc = 0
        THEN Set(c, [call[c] EXCEPT !.cmds = Issued(c, "inspect"),
                                    !.raw = ByName(Name(c)), !.pc = "gd_status"])
        ELSE Set(c, [call[c] EXCEPT !.cmds = Issued(c, "inspect"),
                                    !.bad = Exited(c, "inspect", 1),
                                    !.ret = None, !.pc = "done"])
    /\ EngineSame /\ HarnessSame /\ UNCHANGED <<left, reports>>

\* the {{.State.ExitCode}} the engine reports for the container named n
ReportedExitCode(n) ==
    IF ByName(n) = {} THEN 0 ELSE (CHOOSE k \in ByName(n) : TRUE).ExitCode

\* job_status = await self._get_container_status(container_name); code is the
\* exit code the engine reports in that inspect
GdStatus(c) ==
    /\ call[c].pc = "gd_status"
    /\ \E fail \in BOOLEAN :
        LET st == StatusFromInspect(EngineInspect(Name(c), fail)) IN
        Set(c, [call[c] EXCEPT !.cmds = Issued(c, "inspect"), !.status = st,
                               !.code = ReportedExitCode(Name(c)),
                               !.bad = Exited(c, "inspect", EngineInspect(Name(c), fail).rc),
                               !.ret = IF st = None THEN None ELSE @,
                               !.pc = IF st = None THEN "done" ELSE "gd_logs"])
    /\ EngineSame /\ HarnessSame /\ UNCHANGED <<left, reports>>

\* An environment entry "KEY=VALUE" is the sequence of the parts of its text;
\* "=" is a part of its own, and a name such as AWS_SECRET_ACCESS_KEY is
\* <<"AWS_", "SECRET", "_ACCESS_KEY">>.
Eq == "="

Placeholder == "********"

\* part in key
Contains(key, part) == \E i \in 1..Len(key) : key[i] = part

\* "=" in env_var
HasEq(env_var) == Contains(env_var, Eq)

\* key, value = env_var.split("=", 1)
EqAt(env_var) ==
    CHOOSE i \in 1..Len(env_var) :
        env_var[i] = Eq /\ \A j \in 1..(i - 1) : env_var[j] # Eq

KeyOf(env_var) == SubSeq(env_var, 1, EqAt(env_var) - 1)

ValueOf(env_var) == SubSeq(env_var, EqAt(env_var) + 1, Len(env_var))

\* if "API_KEY" in key or "PASSWORD" in key or "SECRET" in key
IsSensitive(key) ==
    Contains(key, "API_KEY") \/ Contains(key, "PASSWORD") \/ Contains(key, "SECRET")

\* container_data.get("Config", {}).get("Env", [])
EnvOf(container_data) ==
    IF "Env" \in DOMAIN container_data THEN container_data.Env ELSE <<>>

\* the data of the environment section: the entries with "=" by key, a later
\* entry replacing an earlier one of the same key
env_data(env_vars) ==
    LET parsed == {i \in 1..Len(env_vars) : HasEq(env_vars[i])}
        last(key) == CHOOSE i \in parsed :
                        /\ KeyOf(env_vars[i]) = key
                        /\ \A j \in parsed : KeyOf(env_vars[j]) = key => j <= i
    IN  [key \in {KeyOf(env_vars[i]) : i \in parsed} |->
            IF IsSensitive(key) THEN <<Placeholder>> ELSE ValueOf(env_vars[last(key)])]

\* the JobDetails built from job_status and container_data: error is the error
\* section, summary is job_details.error
JobDetails(c, job_status, container_data, logs) ==
    [id |-> Name(c),
     status |-> job_status,
     project_id |-> call[c].p,
     trajectory_id |-> call[c].t,
     raw_data |-> container_data,
     environment |-> env_data(EnvOf(container_data)),
     logs |-> logs,
     error |-> IF job_status = FAILED
               THEN {[exit_code |-> container_data.ExitCode]}
               ELSE {},
     summary |-> IF job_status = FAILED
                 THEN {<<"Container exited with code", container_data.ExitCode>>}
                 ELSE {}]

\* logs = await self.get_job_logs(...), then the sections are built
GdLogs(c) ==
    /\ call[c].pc = "gd_logs"
    /\ \E fail \in BOOLEAN, empty \in BOOLEAN :
        LET logs == LogsResult(Name(c), fail \/ empty)
            data == CHOOSE k \in call[c].raw : TRUE
        IN  Set(c, [call[c] EXCEPT
                !.cmds = Issued(c, "logs"),
                !.bad = Exited(c, "logs", Rc(fail \/ ByName(Name(c)) = {})),
                !.details = {JobDetails(c, call[c].status, data, logs)},
                !.ret = "details", !.pc = "done"])
    /\ EngineSame /\ HarnessSame /\ UNCHANGED <<left, reports>>

---------------------------------------------------------------------------
(* The engine's own transition: the workload of a running container ends *)

WorkloadExitCodes == {0, 1}

EngineExit ==
    /\ \E k \in containers, code \in WorkloadExitCodes :
        /\ k.Status = "running"
        /\ containers' = (containers \ {k}) \cup
                {[k EXCEPT !.Status = "exited", !.Running = FALSE, !.ExitCode = code,
                           !.FinishedAt = SomeTime]}
    /\ HarnessSame /\ UNCHANGED <<nextId, call, left, reports>>

---------------------------------------------------------------------------
(* The runner against the engine *)

NoInput == <<"", "", "", "", "">>

Init ==
    /\ containers = {}
    /\ nextId = 1
    /\ call = [c \in Callers |-> Idle]
    /\ left = MaxCalls
    /\ keys = Keys
    /\ reports = [id \in 1..(MaxCreates + 1) |-> None]
    /\ mapIn = NoInput
    /\ mapOut = None

StartJobOf(c) ==
    \/ StartJobCall(c)
    \/ SjExists(c)
    \/ SjStatus(c)
    \/ SjProvision(c)
    \/ SjRun(c)
    \/ SjRunWait(c)

CleanupOf(c) ==
    \/ ClExists(c)
    \/ ClStop(c)
    \/ ClRm(c)
    \/ ClRmWait(c)

Next ==
    \/ \E c \in Callers : StartJobOf(c)
    \/ \E c \in Callers : CleanupJobCall(c)
    \/ \E c \in Callers : CancelJobCall(c)
    \/ \E c \in Callers : CleanupOf(c)
    \/ EngineExit
    \/ \E c \in Callers : CancelProjectCall(c)
    \/ \E c \in Callers : CbList(c)
    \/ \E c \in Callers : CbStop(c)
    \/ \E c \in Callers : CbRm(c)

Spec == Init /\ [][Next]_vars

---------------------------------------------------------------------------
(* The status queries against one job's lifecycle *)

StatusKeys == {<<P1, T1>>}

InitStatus ==
    /\ containers = {}
    /\ nextId = 1
    /\ call = [c \in Callers |-> Idle]
    /\ left = MaxDriverCalls
    /\ keys = StatusKeys
    /\ reports = [id \in 1..(MaxCreates + 1) |-> None]
    /\ mapIn = NoInput
    /\ mapOut = None

\* one caller drives the job through its life
Driver ==
    \/ StartJobOf("c1")
    \/ CleanupJobCall("c1")
    \/ CleanupOf("c1")
    \/ EngineExit

\* the other caller asks for its status
NextStatus ==
    \/ Driver
    \/ GetJobStatus("c2")
    \/ JobExists("c2")

SpecStatus == InitStatus /\ [][NextStatus]_vars

\* the steps of a call in flight: each is the completion of an awaited engine
\* command, after which the event loop resumes the coroutine
Resume(c) ==
    \/ SjExists(c)
    \/ SjStatus(c)
    \/ SjProvision(c)
    \/ SjRun(c)
    \/ SjRunWait(c)
    \/ CleanupOf(c)

\* every engine command ends and the coroutine awaiting it is resumed
SpecStatusFair == SpecStatus /\ WF_vars(Resume("c1"))

\* or lists the jobs and asks for the details
NextObserve ==
    \/ Driver
    \/ GetJobStatus("c2")
    \/ GetJobsCall("c2")
    \/ GjList("c2")
    \/ GjInspect("c2")
    \/ GetJobDetailsCall("c2")
    \/ GdExists("c2")
    \/ GdInspect("c2")
    \/ GdStatus("c2")
    \/ GdLogs("c2")
    \/ JobExists("c2")
    \/ GetJobLogs("c2")
    \/ GetRunnerInfo("c2")
    \/ CancelJobCall("c1")

SpecObserve == InitStatus /\ [][NextObserve]_vars

---------------------------------------------------------------------------
(* get_jobs against an engine that also holds containers the runner did not start *)

\* a container of another tool, without the managed marker
Unmanaged ==
    [id |-> -1, name |-> <<"other">>,
     labels |-> [project_id |-> <<"p">>, trajectory_id |-> <<"u">>, managed |-> FALSE],
     Status |-> "running", Running |-> TRUE, ExitCode |-> 0,
     StartedAt |-> SomeTime, FinishedAt |-> ZeroTime]

\* a container with the marker and the project label but no trajectory label
Unlabelled ==
    [id |-> -2, name |-> <<"stray">>,
     labels |-> [project_id |-> <<"p">>, trajectory_id |-> <<>>, managed |-> TRUE],
     Status |-> "exited", Running |-> FALSE, ExitCode |-> 0,
     StartedAt |-> SomeTime, FinishedAt |-> SomeTime]

Foreign == {Unmanaged, Unlabelled}

\* one job whose ids sanitization leaves alone and one whose project_id it changes
JobsKeys == {<<P1, T1>>, <<P2, T1>>}

\* the container a successful start_job(key) leaves running
Started(key, id) ==
    [NewContainer(id, DockerRunArgs(key[1], key[2])) EXCEPT
        !.Status = "running", !.Running = TRUE, !.StartedAt = SomeTime]

Fleet == {Started(<<P1, T1>>, 1), Started(<<P2, T1>>, 2)}

InitJobs ==
    /\ containers \in {F \cup S : F \in SUBSET Foreign, S \in SUBSET Fleet}
    /\ nextId = Cardinality(Fleet) + 1
    /\ call = [c \in Callers |-> Idle]
    /\ left = 0
    /\ keys = JobsKeys
    /\ reports = [id \in 1..(MaxCreates + 1) |-> None]
    /\ mapIn = NoInput
    /\ mapOut = None

NextJobs ==
    \/ EngineExit
    \/ GetJobsCall("c2")
    \/ GjList("c2")
    \/ GjInspect("c2")

SpecJobs == InitJobs /\ [][NextJobs]_vars

\* the cancel_job calls made while get_jobs runs
MaxCancels == 1

InitJobsCancel ==
    /\ containers \in {F \cup S : F \in SUBSET Foreign, S \in SUBSET Fleet}
    /\ nextId = Cardinality(Fleet) + 1
    /\ call = [c \in Callers |-> Idle]
    /\ left = MaxCancels
    /\ keys = JobsKeys
    /\ reports = [id \in 1..(MaxCreates + 1) |-> None]
    /\ mapIn = NoInput
    /\ mapOut = None

\* get_jobs of one caller while another cancels a job of the fleet
NextJobsCancel ==
    \/ NextJobs
    \/ CancelJobCall("c1")
    \/ CleanupOf("c1")

SpecJobsCancel == InitJobsCancel /\ [][NextJobsCancel]_vars

---------------------------------------------------------------------------
(* The status mapper on every inspect output *)

RawStatuses ==
    {"created", "running", "exited", "restarting", "paused", "removing", "dead", "bogus"}
RunningFlags == {"true", "false", "True"}
ExitCodeStrs == {"0", "1", "137"}
Times == {ZeroTime, SomeTime}

Unset == "unset"

InitMapper ==
    /\ containers = {}
    /\ nextId = 1
    /\ call = [c \in Callers |-> Idle]
    /\ left = 0
    /\ keys = {}
    /\ reports = [id \in 1..(MaxCreates + 1) |-> None]
    /\ mapIn \in RawStatuses \X RunningFlags \X ExitCodeStrs \X Times \X Times
    /\ mapOut = Unset

\* status, running, exit_code, started_at, finished_at = container_info[:5], then mapped
MapperApply ==
    /\ mapOut = Unset
    /\ mapOut' = MapInspectOutput(mapIn)
    /\ UNCHANGED <<containers, nextId, call, left, keys, reports, mapIn>>

SpecMapper == InitMapper /\ [][MapperApply]_vars

---------------------------------------------------------------------------
(* The details of two containers that differ in one environment value *)

\* variant: a name that contains API_KEY or a provider prefix anywhere
IsForwarded_Anywhere(key) ==
    \E i \in 1..Len(key) : key[i] \in {"API_KEY", "AWS_", "GCP_", "AZURE_"}

\* the variables start_job forwards from the host environment:
\* key.endswith("API_KEY") or key.startswith("AWS_") / "GCP_" / "AZURE_"
IsForwarded(key) ==
    key[Len(key)] = "API_KEY" \/ key[1] \in {"AWS_", "GCP_", "AZURE_"}

EnvKeys ==
    {<<"OPENAI_", "API_KEY">>,
     <<"AWS_", "ACCESS_KEY_ID">>,
     <<"AWS_", "SECRET", "_ACCESS_KEY">>,
     <<"GCP_", "PROJECT">>,
     <<"AZURE_", "TENANT_ID">>,
     <<"DB_", "PASSWORD">>,
     <<"MY_", "SECRET", "_TOKEN">>,
     <<"MOATLESS_DIR">>}

EnvValues == {<<"s1">>, <<"s2">>, <<"s", Eq, "3">>}

\* the other entry of the environment
OtherEntries ==
    {<<"MOATLESS_DIR", Eq, "/data">>, <<"REDIS_URL", Eq, "redis://">>, <<"NOVALUE">>}

\* the inspect data of a container started with environment env
WithEnv(k, env) ==
    [f \in DOMAIN k \cup {"Env"} |-> IF f = "Env" THEN env ELSE k[f]]

\* the states a started container is inspected in
Inspected(k) ==
    {k} \cup {[k EXCEPT !.Status = "exited", !.Running = FALSE, !.ExitCode = code,
                        !.FinishedAt = SomeTime] : code \in WorkloadExitCodes}

\* two inspect results that differ only in the value of the variable key
EnvPairs ==
    {[key |-> key,
      a |-> WithEnv(k, <<other, key \o <<Eq>> \o v>>),
      b |-> WithEnv(k, <<other, key \o <<Eq>> \o w>>)] :
        key \in EnvKeys, v \in EnvValues, w \in EnvValues,
        other \in OtherEntries, k \in Inspected(Started(<<P1, T1>>, 1))}

InitDetails ==
    /\ containers = {}
    /\ nextId = 1
    /\ call = [c \in Callers |-> IF c = "c2"
                                 THEN Invoked("get_job_details", P1, T1, "gd_logs")
                                 ELSE Idle]
    /\ left = 0
    /\ keys = {<<P1, T1>>}
    /\ reports = [id \in 1..(MaxCreates + 1) |-> None]
    /\ mapIn \in {e \in EnvPairs : e.a # e.b}
    /\ mapOut = <<>>

\* get_job_details builds the JobDetails from each of the two inspect results
DetailsApply ==
    /\ mapOut = <<>>
    /\ mapOut' = <<JobDetails("c2", StatusOf(mapIn.a), mapIn.a, "logs"),
                   JobDetails("c2", StatusOf(mapIn.b), mapIn.b, "logs")>>
    /\ UNCHANGED <<containers, nextId, call, left, keys, reports, mapIn>>

SpecDetails == InitDetails /\ [][DetailsApply]_vars

---------------------------------------------------------------------------
(* _convert_localhost_url: a URL is the sequence of its characters *)

\* str.lower() on the letters the inputs use (re.IGNORECASE)
UpperToLower ==
    ("L" :> "l") @@ ("O" :> "o") @@ ("C" :> "c") @@ ("A" :> "a") @@ ("H" :> "h") @@
    ("S" :> "s") @@ ("T" :> "t") @@ ("R" :> "r") @@ ("E" :> "e") @@ ("D" :> "d") @@
    ("I" :> "i") @@ ("P" :> "p")

LowerChar(x) == IF x \in DOMAIN UpperToLower THEN UpperToLower[x] ELSE x

Digits == {"0", "1", "2", "3", "4", "5", "6", "7", "8", "9"}

\* the literals of localhost_pattern
RedisScheme == <<"r", "e", "d", "i", "s", ":", "/", "/">>
HttpScheme == <<"h", "t", "t", "p", ":", "/", "/">>
HttpsScheme == <<"h", "t", "t", "p", "s", ":", "/", "/">>
Localhost == <<"l", "o", "c", "a", "l", "h", "o", "s", "t">>
Loopback == <<"1", "2", "7", ".", "0", ".", "0", ".", "1">>

\* host.docker.internal, kept as one element
HostAlias == <<"host.docker.internal">>

\* the literal lit matches url at position i, letters compared without case
MatchesAt(url, i, lit) ==
    /\ i + Len(lit) - 1 <= Len(url)
    /\ \A j \in 1..Len(lit) : LowerChar(url[i + j - 1]) = lit[j]

\* (?:localhost|127\.0\.0\.1) at position i: the length matched, 0 when neither
HostLenAt(url, i) ==
    IF MatchesAt(url, i, Localhost) THEN Len(Localhost)
    ELSE IF MatchesAt(url, i, Loopback) THEN Len(Loopback)
    ELSE 0

\* (redis://|http://|https://|): the alternatives in order; the first after which
\* the host matches is the one re.match settles on
ProtocolAlternatives == <<RedisScheme, HttpScheme, HttpsScheme, <<>>>>

\* the index of that alternative, 0 when the pattern does not match at all
ProtocolMatch(url) ==
    LET ok == {a \in 1..Len(ProtocolAlternatives) :
                  /\ MatchesAt(url, 1, ProtocolAlternatives[a])
                  /\ HostLenAt(url, Len(ProtocolAlternatives[a]) + 1) > 0}
    IN  IF ok = {} THEN 0 ELSE CHOOSE a \in ok : \A b \in ok : a <= b

\* (:[\d]+)? at position i: the length matched, the colon and every digit after it
PortLenAt(url, i) ==
    IF i + 1 <= Len(url) /\ url[i] = ":" /\ url[i + 1] \in Digits
    THEN 1 + (CHOOSE n \in 1..(Len(url) - i) :
                  /\ \A j \in 1..n : url[i + j] \in Digits
                  /\ (i + n + 1 <= Len(url) => url[i + n + 1] \notin Digits))
    ELSE 0

\* (/.*)? at position i: the rest of the url when it starts with "/"
PathLenAt(url, i) ==
    IF i <= Len(url) /\ url[i] = "/" THEN Len(url) - i + 1 ELSE 0

\* protocol, port, path = match.groups();
\* f"{protocol}host.docker.internal{port}{path}"
_convert_localhost_url(url) ==
    IF url = <<>> THEN url
    ELSE IF ProtocolMatch(url) = 0 THEN url
    ELSE LET p0 == Len(ProtocolAlternatives[ProtocolMatch(url)])
             h0 == p0 + HostLenAt(url, p0 + 1)
             q0 == h0 + PortLenAt(url, h0 + 1)
             e0 == q0 + PathLenAt(url, q0 + 1)
         IN  SubSeq(url, 1, p0) \o HostAlias \o SubSeq(url, h0 + 1, q0)
                 \o SubSeq(url, q0 + 1, e0)

\* the inputs: a url is put together from a scheme, a host, a port and a rest
UrlSchemes ==
    {<<>>, RedisScheme, HttpScheme, HttpsScheme, <<"R", "E", "D", "I", "S", ":", "/", "/">>, <<"r", "e", "d", "i", "s", "s", ":", "/", "/">>}

UrlHosts ==
    {Localhost, Loopback, <<"L", "o", "c", "a", "l", "H", "o", "s", "t">>, <<"e", "x", "a", "m", "p", "l", "e", ".", "c", "o", "m">>,
     Localhost \o <<".", "d", "b">>, Loopback \o <<"0">>}

UrlPorts == {<<>>, <<":", "6", "3", "7", "9">>, <<":", "x">>}

UrlRests == {<<>>, <<"/", "0">>, <<"/", "p", "a", "t", "h">>, <<"?", "q">>}

UrlParts == [scheme : UrlSchemes, host : UrlHosts, port : UrlPorts, rest : UrlRests]

UrlOf(parts) == parts.scheme \o parts.host \o parts.port \o parts.rest

NotConverted == <<"not converted">>

InitUrl ==
    /\ containers = {}
    /\ nextId = 1
    /\ call = [c \in Callers |-> Idle]
    /\ left = 0
    /\ keys = {}
    /\ reports = [id \in 1..(MaxCreates + 1) |-> None]
    /\ mapIn \in UrlParts
    /\ mapOut = NotConverted

\* redis_url = self._convert_localhost_url(os.environ.get("REDIS_URL"))
UrlApply ==
    /\ mapOut = NotConverted
    /\ mapOut' = _convert_localhost_url(UrlOf(mapIn))
    /\ UNCHANGED <<containers, nextId, call, left, keys, reports, mapIn>>

SpecUrl == InitUrl /\ [][UrlApply]_vars

---------------------------------------------------------------------------
(* Bulk cancel against the containers of several projects *)

\* two jobs of one project, and two projects whose ids sanitize to the same label
BulkKeys == {<<P1, T1>>, <<P1, T2>>, <<P2, T1>>, <<P3, T1>>}

\* the engine's id of the container started for a key of BulkKeys
BulkId(key) ==
    IF key = <<P1, T1>> THEN 1 ELSE IF key = <<P1, T2>> THEN 2 ELSE 3

\* the keys start_job was called with: the engine holds one container per name
StartedKeySets ==
    {K \in SUBSET BulkKeys :
        \A k1 \in K : \A k2 \in K :
            _container_name(k1[1], k1[2]) = _container_name(k2[1], k2[2]) => k1 = k2}

\* keys records the keys the containers were started under
InitBulk ==
    /\ keys \in StartedKeySets
    /\ containers = {Started(key, BulkId(key)) : key \in keys}
    /\ nextId = Cardinality(BulkKeys) + 1
    /\ call = [c \in Callers |-> Idle]
    /\ left = MaxBulkCalls
    /\ reports = [id \in 1..(MaxCreates + 1) |-> None]
    /\ mapIn = NoInput
    /\ mapOut = None

NextBulk ==
    \/ EngineExit
    \/ \E c \in Callers : CancelProjectCall(c)
    \/ \E c \in Callers : CbList(c)
    \/ \E c \in Callers : CbStop(c)
    \/ \E c \in Callers : CbRm(c)

SpecBulk == InitBulk /\ [][NextBulk]_vars

---------------------------------------------------------------------------
(* The resource names of two keys *)

\* ids that are legal as they are, ids with a character outside the legal
\* charset, ids that contain the separator, and ids longer than the legal length
NameProjectIds == {P1, P2, <<"q", "-">>, <<"p", "-", "t">>}
NameTrajectoryIds == {T1, <<"t", "-", "t">>, <<"t", "t", "t", "p">>, <<"t", "t", "t", "q">>}

NameKeys == NameProjectIds \X NameTrajectoryIds

InitNames ==
    /\ containers = {}
    /\ nextId = 1
    /\ call = [c \in Callers |-> Idle]
    /\ left = 0
    /\ keys = NameKeys
    /\ reports = [id \in 1..(MaxCreates + 1) |-> None]
    /\ mapIn \in NameKeys \X NameKeys
    /\ mapOut = <<>>

\* container_name = self._container_name(project_id, trajectory_id), for each key
NamesApply ==
    /\ mapOut = <<>>
    /\ mapOut' = <<_container_name(mapIn[1][1], mapIn[1][2]),
                   _container_name(mapIn[2][1], mapIn[2][2])>>
    /\ UNCHANGED <<containers, nextId, call, left, keys, reports, mapIn>>

SpecNames == InitNames /\ [][NamesApply]_vars

---------------------------------------------------------------------------
(* The launch configuration start_job composes: limits, platform, environment,
   entrypoint *)

\* a value Python takes as true in `a or b` and `if a`
Truthy(v) == v # None /\ v # ""

\* a or b
Or(a, b) == IF Truthy(a) THEN a ELSE b

\* platform.machine().lower()
MachineLower(machine) ==
    IF machine = "ARM64" THEN "arm64"
    ELSE IF machine = "AARCH64" THEN "aarch64" ELSE machine

\* self.is_arm64 = platform.machine().lower() in ["arm64", "aarch64"]
is_arm64(machine) == MachineLower(machine) \in {"arm64", "aarch64"}

\* the platform flag of the create command
PlatformArgs(machine, architecture) ==
    IF is_arm64(machine) /\ architecture = "x86_64" THEN <<"--platform=linux/amd64">>
    ELSE IF architecture = "arm64" THEN <<"--platform=linux/arm64">>
    ELSE <<>>

\* variant: without the default of the swap limit
MemoryArgs_NoSwapDefault(memory_limit, memory_swap_limit, self_memory_limit, self_memory_swap_limit) ==
    LET effective_memory_limit == Or(memory_limit, self_memory_limit)
        effective_memory_swap_limit == Or(memory_swap_limit, self_memory_swap_limit)
    IN  (IF Truthy(effective_memory_limit)
         THEN <<<<"--memory", effective_memory_limit>>>> ELSE <<>>)
        \o (IF Truthy(effective_memory_swap_limit)
            THEN <<<<"--memory-swap", effective_memory_swap_limit>>>> ELSE <<>>)

\* the memory flags of the create command
MemoryArgs(memory_limit, memory_swap_limit, self_memory_limit, self_memory_swap_limit) ==
    LET effective_memory_limit == Or(memory_limit, self_memory_limit)
        effective_memory_swap_limit == Or(memory_swap_limit, self_memory_swap_limit)
    IN  (IF Truthy(effective_memory_limit)
         THEN <<<<"--memory", effective_memory_limit>>>> ELSE <<>>)
        \o (IF Truthy(effective_memory_swap_limit)
            THEN <<<<"--memory-swap", effective_memory_swap_limit>>>>
            ELSE IF Truthy(effective_memory_limit)
            THEN <<<<"--memory-swap", effective_memory_limit>>>>
            ELSE <<>>)

\* variant: the update step whenever update-on-start is enabled
should_update_IgnoringMount(update_on_start, moatless_source_dir) == update_on_start

\* should_update = self.update_on_start and not self.moatless_source_dir
should_update(update_on_start, moatless_source_dir) ==
    update_on_start /\ ~Truthy(moatless_source_dir)

\* commit_hash = instance_tmp.get("base_commit", "latest")
commit_hash(instance_tmp) ==
    IF "base_commit" \in DOMAIN instance_tmp THEN instance_tmp.base_commit ELSE "latest"

\* the steps of run_command, in the order in which the shell runs them
run_command(update_on_start, update_branch, moatless_source_dir, instance_tmp, args) ==
    (IF should_update(update_on_start, moatless_source_dir)
     THEN <<[step |-> "update-moatless.sh --branch", arg |-> update_branch]>>
     ELSE <<>>)
    \o <<[step |-> "cd", arg |-> "/workspace/repo"],
         [step |-> "git checkout", arg |-> commit_hash(instance_tmp)],
         [step |-> "pip install uv", arg |-> ""],
         [step |-> "cd", arg |-> "/opt/moatless/moatless"],
         [step |-> "uv sync", arg |-> ""],
         [step |-> "date", arg |-> ""],
         [step |-> "echo", arg |-> "Starting job at"],
         [step |-> "uv run -", arg |-> args]>>

\* the entry KEY=VALUE of a variable
EnvEntry(key, value) == key \o <<Eq>> \o value

\* the variables every job gets
FixedEnv(project_id, trajectory_id) ==
    <<EnvEntry(<<"PROJECT_ID">>, project_id),
      EnvEntry(<<"TRAJECTORY_ID">>, trajectory_id),
      EnvEntry(<<"JOB_FUNC">>, <<"module.func">>),
      EnvEntry(<<"MOATLESS_DIR">>, <<"/data/moatless">>),
      EnvEntry(<<"MOATLESS_SOURCE_DIR">>, <<"/opt/moatless/moatless">>),
      EnvEntry(<<"NLTK_DATA">>, <<"/data/nltk_data">>),
      EnvEntry(<<"INDEX_STORE_DIR">>, <<"/opt/moatless/moatless/index_store/avr-bench_">> \o trajectory_id),
      EnvEntry(<<"REPO_DIR">>, <<"/workspace/repo">>),
      EnvEntry(<<"SKIP_CONDA_ACTIVATE">>, <<"true">>),
      EnvEntry(<<"INSTANCE_PATH">>, <<"/opt/moatless/moatless/instances/">> \o trajectory_id),
      EnvEntry(<<"VIRTUAL_ENV">>, <<>>),
      EnvEntry(<<"UV_NO_VENV">>, <<"1">>),
      EnvEntry(<<"REPO_PATH">>, <<"/workspace/repo">>)>>

\* os.environ.get(key): <<>> when the variable is not set
Getenv(environ, key) ==
    IF \E i \in 1..Len(environ) : environ[i].key = key
    THEN environ[CHOOSE i \in 1..Len(environ) : environ[i].key = key].value
    ELSE <<>>

\* for key, value in os.environ.items(): the entries of the names that match
RECURSIVE Forwarded(_)
Forwarded(environ) ==
    IF environ = <<>> THEN <<>>
    ELSE (IF IsForwarded(Head(environ).key)
          THEN <<EnvEntry(Head(environ).key, Head(environ).value)>> ELSE <<>>)
         \o Forwarded(Tail(environ))

\* for key, value in otel_context.items(): env_vars.append(f"OTEL_{key}={value}")
OtelEnv(otel_context) ==
    [i \in 1..Len(otel_context) |->
        EnvEntry(<<"OTEL_", otel_context[i].key>>, otel_context[i].value)]

\* env_vars, as start_job builds it
env_vars(project_id, trajectory_id, components_path, environ, otel_context) ==
    FixedEnv(project_id, trajectory_id)
    \o (IF Truthy(components_path)
        THEN <<EnvEntry(<<"MOATLESS_COMPONENTS_PATH">>, <<"/opt/components">>)>> ELSE <<>>)
    \o (IF Getenv(environ, <<"REDIS_URL">>) # <<>>
        THEN <<EnvEntry(<<"REDIS_URL">>,
                        _convert_localhost_url(Getenv(environ, <<"REDIS_URL">>)))>>
        ELSE <<>>)
    \o Forwarded(environ)
    \o OtelEnv(otel_context)

\* the create command of start_job for a runner and a call configured by cfg
LaunchCommand(cfg) ==
    [name |-> DockerRunArgs(cfg.project_id, cfg.trajectory_id).name,
     labels |-> DockerRunArgs(cfg.project_id, cfg.trajectory_id).labels,
     platform |-> PlatformArgs(cfg.machine, cfg.architecture),
     memory |-> MemoryArgs(cfg.memory_limit, cfg.memory_swap_limit,
                           cfg.self_memory_limit, cfg.self_memory_swap_limit),
     env |-> env_vars(cfg.project_id, cfg.trajectory_id, cfg.components_path,
                      cfg.environ, cfg.otel_context)
             \o (IF Truthy(cfg.moatless_source_dir)
                 THEN <<EnvEntry(<<"PYTHONPATH">>, <<"/opt/moatless/moatless:$PYTHONPATH">>)>>
                 ELSE <<>>),
     source_mounted |-> Truthy(cfg.moatless_source_dir),
     run_command |-> run_command(cfg.update_on_start, cfg.update_branch,
                                 cfg.moatless_source_dir, cfg.instance_tmp,
                                 <<cfg.project_id, cfg.trajectory_id, "module.func">>)]

MemoryLimits == {None, "", "4g", "8g"}
Machines == {"x86_64", "arm64", "aarch64", "ARM64"}
Architectures == {"x86_64", "arm64", "amd64"}
SourceDirs == {None, "/src"}
Instances == {[repo |-> "org/repo", base_commit |-> "abc123"], [repo |-> "org/repo"]}

\* the configuration when nothing is set
Plain ==
    [project_id |-> P1, trajectory_id |-> T1,
     memory_limit |-> None, memory_swap_limit |-> None,
     self_memory_limit |-> None, self_memory_swap_limit |-> None,
     machine |-> "x86_64", architecture |-> "x86_64",
     update_on_start |-> FALSE, update_branch |-> "main",
     moatless_source_dir |-> None, components_path |-> None,
     instance_tmp |-> [repo |-> "org/repo", base_commit |-> "abc123"],
     environ |-> <<>>, otel_context |-> <<>>]

\* runner configurations and per-call limits
LaunchConfigs ==
    {[Plain EXCEPT !.memory_limit = m, !.memory_swap_limit = s,
                   !.self_memory_limit = dm, !.self_memory_swap_limit = ds,
                   !.machine = h, !.architecture = a,
                   !.update_on_start = u, !.moatless_source_dir = src,
                   !.instance_tmp = inst] :
        m \in MemoryLimits, s \in MemoryLimits, dm \in MemoryLimits, ds \in MemoryLimits,
        h \in Machines, a \in Architectures, u \in BOOLEAN, src \in SourceDirs,
        inst \in Instances}

NotLaunched == <<>>

InitLaunch ==
    /\ containers = {}
    /\ nextId = 1
    /\ call = [c \in Callers |-> Idle]
    /\ left = 0
    /\ keys = {<<P1, T1>>}
    /\ reports = [id \in 1..(MaxCreates + 1) |-> None]
    /\ mapIn \in LaunchConfigs
    /\ mapOut = NotLaunched

\* start_job composes the create command
LaunchApply ==
    /\ mapOut = NotLaunched
    /\ mapOut' = <<LaunchCommand(mapIn)>>
    /\ UNCHANGED <<containers, nextId, call, left, keys, reports, mapIn>>

SpecLaunch == InitLaunch /\ [][LaunchApply]_vars

\* names of host variables: those of EnvKeys, names that hold API_KEY or a
\* provider prefix in another place, and a lower-case one
HostKeys ==
    EnvKeys \cup {<<"API_KEY", "_FILE">>, <<"MY_", "AWS_", "REGION">>, <<"openai_", "api_key">>}

RedisUrls ==
    {RedisScheme \o Localhost \o <<":", "6", "3", "7", "9">>,
     RedisScheme \o <<"r", "e", "d", "i", "s">>}

\* one variable of the host environment
HostVars ==
    {[key |-> key, value |-> v] : key \in HostKeys, v \in EnvValues}
    \cup {[key |-> <<"REDIS_URL">>, value |-> u] : u \in RedisUrls}

\* host environments of up to two variables
Environs ==
    {<<>>} \cup {<<a>> : a \in HostVars}
    \cup {e \in {<<a, b>> : a \in HostVars, b \in HostVars} : e[1].key # e[2].key}

OtelContexts == {<<>>, <<[key |-> "traceparent", value |-> <<"00-ab-cd-01">>]>>}

InitLaunchEnv ==
    /\ containers = {}
    /\ nextId = 1
    /\ call = [c \in Callers |-> Idle]
    /\ left = 0
    /\ keys = {<<P1, T1>>}
    /\ reports = [id \in 1..(MaxCreates + 1) |-> None]
    /\ mapIn \in {[Plain EXCEPT !.environ = e, !.otel_context = o,
                                !.components_path = cp, !.moatless_source_dir = src] :
                    e \in Environs, o \in OtelContexts, cp \in {None, "/components"},
                    src \in SourceDirs}
    /\ mapOut = NotLaunched

SpecLaunchEnv == InitLaunchEnv /\ [][LaunchApply]_vars

---------------------------------------------------------------------------
(* Properties *)

HasCmd(c, cmd) == \E i \in 1..Len(call[c].cmds) : call[c].cmds[i].cmd = cmd

Returned(c, op) == call[c].op = op /\ call[c].pc = "done"

\* C1: in every reachable state the engine holds, for each key, at most one
\* resource carrying the key's labels whose canonical status is PENDING or RUNNING.
C1_AtMostOneActivePerKey ==
    \A key \in Keys :
        Cardinality({k \in OfKey(key[1], key[2]) : StatusOf(k) \in {PENDING, RUNNING}}) <= 1

\* a start_job whose create the engine refused while the key's resource is RUNNING
C1_Witness ==
    \E c \in Callers :
        /\ Returned(c, "start_job")
        /\ call[c].ret = "False"
        /\ HasCmd(c, "run")
        /\ \E k \in OfKey(call[c].p, call[c].t) : StatusOf(k) = RUNNING

\* the call found the key's resource RUNNING at each of its checks, and that
\* resource has not been removed since
SawRunning(c) ==
    /\ Returned(c, "start_job")
    /\ call[c].live # 0
    /\ \E k \in containers : k.id = call[c].live

\* C2 as stated: a start_job for a key whose resource, started by an earlier
\* start_job, is RUNNING returns false, raises nothing, issues no create command
\* and leaves the resource in place; no second resource is created.
C2_Original ==
    \A c \in Callers :
        SawRunning(c) =>
            /\ call[c].ret = "False"
            /\ ~HasCmd(c, "run")
            /\ ~HasCmd(c, "stop") /\ ~HasCmd(c, "rm")
            /\ OfKey(call[c].p, call[c].t) = {k \in containers : k.id = call[c].live}

\* C2 as amended: the same, but a create command is issued when the existence
\* inspect itself failed (the engine then refuses it).
C2_SecondStartRefused ==
    \A c \in Callers :
        SawRunning(c) =>
            /\ call[c].ret = "False"
            /\ call[c].exists => ~HasCmd(c, "run")
            /\ ~HasCmd(c, "stop") /\ ~HasCmd(c, "rm")
            /\ OfKey(call[c].p, call[c].t) = {k \in containers : k.id = call[c].live}

C2_Witness ==
    \E c \in Callers :
        /\ SawRunning(c)
        /\ call[c].exists
        /\ call[c].status = RUNNING
        /\ \E d \in Callers \ {c} :
            Returned(d, "start_job") /\ call[d].ret = "True" /\ call[d].cid = call[c].live

\* C3 as stated: when the status start_job finds for its key's resource is PENDING
\* or RUNNING, it returns false and issues no stop, remove or create command.
C3_Original ==
    \A c \in Callers :
        Returned(c, "start_job") /\ call[c].status \in {PENDING, RUNNING} =>
            /\ call[c].ret = "False"
            /\ ~HasCmd(c, "stop") /\ ~HasCmd(c, "rm") /\ ~HasCmd(c, "run")

\* C3 as amended: when the status start_job finds is RUNNING, it returns false and
\* issues no stop, remove or create command (a PENDING resource is removed and
\* the job restarted).
C3_RunningIsNoOp ==
    \A c \in Callers :
        Returned(c, "start_job") /\ call[c].status = RUNNING =>
            /\ call[c].ret = "False"
            /\ ~HasCmd(c, "stop") /\ ~HasCmd(c, "rm") /\ ~HasCmd(c, "run")

C3_Witness ==
    \E c \in Callers :
        /\ Returned(c, "start_job")
        /\ call[c].status = RUNNING
        /\ call[c].ret = "False"
        /\ \E k \in ByName(Name(c)) : k.Status = "running"

\* C4: when start_job has found a terminal or stale resource for its key and
\* issues the create command, that resource is no longer in the engine.
C4_CreateAfterRemoval ==
    \A c \in Callers :
        call[c].op = "start_job" /\ call[c].old # 0 /\ HasCmd(c, "run") => ~call[c].over

\* C5: for one resource instance, get_job_status never reports PENDING once it has
\* reported RUNNING, and never reports PENDING, RUNNING or the other terminal value
\* once it has reported COMPLETED or FAILED.  (call.status holds the furthest
\* status reported for the instance before this call.)
C5_StatusMonotonic ==
    \A c \in Callers :
        Returned(c, "get_job_status") /\ call[c].ret # None =>
            /\ call[c].status = RUNNING => call[c].ret # PENDING
            /\ call[c].status \in {COMPLETED, FAILED} =>
                   call[c].ret \notin ({PENDING, RUNNING, COMPLETED, FAILED} \ {call[c].status})

\* a terminal value reported for an instance that was earlier reported RUNNING
C5_Witness ==
    \E c \in Callers :
        /\ Returned(c, "get_job_status")
        /\ call[c].status = RUNNING
        /\ call[c].ret \in {COMPLETED, FAILED}

Observed == {PENDING, RUNNING, COMPLETED, FAILED, STOPPED}

\* C6: the status get_job_status returns, the status of every JobInfo get_jobs
\* builds and the status of the JobDetails get_job_details builds is one of
\* PENDING, RUNNING, COMPLETED, FAILED, STOPPED, or absent; never CANCELED.
C6_NeverCanceled ==
    \A c \in Callers :
        /\ Returned(c, "get_job_status") => call[c].ret \in Observed \cup {None}
        /\ call[c].op = "get_jobs" =>
               \A i \in 1..Len(call[c].jobs) : call[c].jobs[i].status \in Observed
        /\ call[c].op = "get_job_details" =>
               /\ call[c].status \in Observed \cup {None}
               /\ \A d \in call[c].details : d.status \in Observed

\* get_job_details has reported on a resource in its removal
C6_Witness ==
    \E c \in Callers :
        /\ Returned(c, "get_job_details")
        /\ \E d \in call[c].details : d.status = STOPPED

\* the timestamp override of _get_container_status
Override(info) == info[4] # ZeroTime /\ info[5] = ZeroTime

\* the table as the specification words it, on raw_status and exit_code alone
Table(raw_status, exit_code) ==
    IF raw_status \in {"running", "restarting", "paused"} THEN RUNNING
    ELSE IF raw_status = "created" THEN PENDING
    ELSE IF raw_status = "exited" THEN (IF exit_code = "0" THEN COMPLETED ELSE FAILED)
    ELSE IF raw_status = "removing" THEN STOPPED
    ELSE FAILED

TrueFlag(running_flag) == running_flag \in {"true", "True", "TRUE"}

\* the table with the running flag: a true flag gives RUNNING whatever raw_status
TableWithFlag(raw_status, running_flag, exit_code) ==
    IF TrueFlag(running_flag) THEN RUNNING ELSE Table(raw_status, exit_code)

\* C7 as stated: when the override does not apply, the mapper's result is the
\* table's value for raw_status and exit_code, for every running_flag.
C7_Original ==
    mapOut # Unset /\ ~Override(mapIn) => mapOut = Table(mapIn[1], mapIn[3])

\* C7 as amended: when the override does not apply and the running flag is not
\* true, the mapper's result is the table's value for raw_status and exit_code;
\* when the running flag is true the result is RUNNING.
C7_TableWhenFlagNotTrue ==
    mapOut # Unset /\ ~Override(mapIn) =>
        /\ ~TrueFlag(mapIn[2]) => mapOut = Table(mapIn[1], mapIn[3])
        /\ TrueFlag(mapIn[2]) => mapOut = RUNNING

\* an unrecognized raw status mapped to FAILED
C7_Witness ==
    /\ mapOut = FAILED
    /\ ~Override(mapIn)
    /\ mapIn[1] = "bogus"
    /\ mapIn[2] = "false"

C9_AbsentWhenNoResource ==
    \A c \in Callers :
        call[c].pc = "done" /\ ~call[c].existed =>
            /\ call[c].op = "get_job_status" => call[c].ret = None
            /\ call[c].op = "job_exists" => call[c].ret = "False"

\* the engine answered "not found" for a key whose resource has been removed
C9_Witness ==
    \E c \in Callers :
        /\ Returned(c, "get_job_status")
        /\ ~call[c].existed
        /\ call[c].ret = None
        /\ nextId > 1

\* C10 as stated: whenever a resource for the key exists at the time of the call,
\* get_job_status returns a JobStatus value and job_exists returns true.
C10_Original ==
    \A c \in Callers :
        call[c].pc = "done" /\ call[c].existed =>
            /\ call[c].op = "get_job_status" => call[c].ret \in JobStatus
            /\ call[c].op = "job_exists" => call[c].ret = "True"

\* C10 as amended: whenever a resource for the key exists at the time of the call
\* and the engine's inspect command succeeds, get_job_status returns a JobStatus
\* value and job_exists returns true.
C10_StatusWhenInspectSucceeds ==
    \A c \in Callers :
        call[c].pc = "done" /\ call[c].existed /\ call[c].exists =>
            /\ call[c].op = "get_job_status" => call[c].ret \in JobStatus
            /\ call[c].op = "job_exists" => call[c].ret = "True"

C10_Witness ==
    \E c \in Callers :
        /\ Returned(c, "job_exists")
        /\ call[c].existed /\ call[c].exists
        /\ call[c].ret = "True"

\* the managed containers labelled with project p that were created before the
\* call of c began
OfProjectBefore(c) ==
    {k \in containers : /\ k.labels.managed
                        /\ k.labels.project_id = sanitize_label(call[c].p)
                        /\ k.id < call[c].mark}

\* C11: when cancel_job(project_id) without trajectory_id has returned and every
\* engine command it issued exited 0, no managed resource labelled with the project
\* that existed when the call began remains in the engine.
C11_BulkCancelRemovesAll ==
    \A c \in Callers :
        Returned(c, "cancel_project") /\ call[c].bad = {} => OfProjectBefore(c) = {}

\* the stop and remove commands of the call, in the order it issued them
Teardown(c) == SelectSeq(call[c].cmds, LAMBDA x : x.cmd \in {"stop", "rm"})

StopThenRemove(c) ==
    <<[cmd |-> "stop", name |-> Name(c), ids |-> {}],
      [cmd |-> "rm", name |-> Name(c), ids |-> {}]>>

\* the existence check of the call found the resource
Found(c) == call[c].existed /\ "inspect" \notin call[c].bad

\* C12: cancel_job(project_id, trajectory_id) on an existing resource (one its
\* existence check finds) issues a stop and then a remove for exactly that
\* resource; when both succeed the resource is gone (get_job_status is absent);
\* when the resource is already gone it issues neither command and completes
\* without error.
C12_CancelStopsThenRemoves ==
    \A c \in Callers :
        Returned(c, "cancel_job") =>
            /\ Found(c) => Teardown(c) = StopThenRemove(c)
            /\ Found(c) /\ call[c].bad \cap {"stop", "rm"} = {} =>
                   \A k \in containers : k.id # call[c].seen
            /\ ~call[c].existed => Teardown(c) = <<>> /\ call[c].ret = "void"

\* C13: a cleanup_job that finds no resource for its key issues the existence
\* inspect only, reports success and leaves the engine as it was, so a second
\* cleanup_job after one that removed the resource changes nothing.
C13_CleanupIdempotent ==
    [][\A c \in Callers :
         (/\ call[c].op = "cleanup_job"
          /\ call[c].pc = "cl_exists"
          /\ call'[c] # call[c]
          /\ ByName(Name(c)) = {})
         => /\ containers' = containers
            /\ call'[c].pc = "done"
            /\ call'[c].cleaned = "True"
            /\ call'[c].ret = "void"
            /\ call'[c].cmds = <<[cmd |-> "inspect", name |-> Name(c), ids |-> {}]>>]_vars

\* a cleanup_job that found nothing, after the key's resource was created and removed
C13_Witness ==
    \E c \in Callers :
        /\ Returned(c, "cleanup_job")
        /\ ~call[c].existed
        /\ call[c].cleaned = "True"
        /\ nextId > 1
        /\ containers = {}

\* C14: after cleanup_job returns, the resource its existence check found no
\* longer exists in the engine, provided no forced remove of it failed.
C14_CleanupForceful ==
    \A c \in Callers :
        Returned(c, "cleanup_job") /\ Found(c) /\ "rm" \notin call[c].bad =>
            \A k \in containers : k.id # call[c].seen

\* C16: when the create command start_job issued exits non-zero, start_job returns
\* false (no exception) and no resource created by that call is running.
C16_CreateFailureReturnsFalse ==
    \A c \in Callers :
        Returned(c, "start_job") /\ "run" \in call[c].bad =>
            /\ call[c].ret = "False"
            /\ \A k \in containers : k.id = call[c].cid => StatusOf(k) # RUNNING

\* the create command made the container and failed to start it
C16_Witness ==
    \E c \in Callers :
        /\ Returned(c, "start_job")
        /\ "run" \in call[c].bad
        /\ call[c].ret = "False"
        /\ \E k \in containers : k.id = call[c].cid /\ k.Status = "created"

\* start_job got as far as its provisioning phase
Provisioned(c) ==
    Returned(c, "start_job") /\ ~(call[c].exists /\ call[c].status \notin Restartable)

\* C17 as stated: a start_job whose job metadata cannot be resolved, or whose create
\* command finds the engine unreachable, ends in an exception; no other operation
\* ends in one.
C17_Original ==
    \A c \in Callers :
        /\ Provisioned(c) /\ call[c].t \notin _moatless_instances => call[c].ret = "raised"
        /\ Returned(c, "start_job") /\ "unreachable" \in call[c].bad => call[c].ret = "raised"
        /\ call[c].pc = "done" /\ call[c].op # "start_job" => call[c].ret # "raised"

\* C17 as amended: a start_job whose job metadata cannot be resolved ends in an
\* exception; one whose create command finds the engine unreachable returns false;
\* no other operation ends in an exception.
C17_MetadataRaisesEngineFalse ==
    \A c \in Callers :
        /\ Provisioned(c) /\ call[c].t \notin _moatless_instances => call[c].ret = "raised"
        /\ Returned(c, "start_job") /\ "unreachable" \in call[c].bad => call[c].ret = "False"
        /\ call[c].pc = "done" /\ call[c].op # "start_job" => call[c].ret # "raised"

\* both hard failures have happened
C17_Witness ==
    /\ \E c \in Callers : Returned(c, "start_job") /\ call[c].ret = "raised"
    /\ \E c \in Callers : Returned(c, "start_job") /\ "unreachable" \in call[c].bad

\* C18: every JobInfo get_jobs builds stems from a resource with the managed marker
\* and non-empty project_id and trajectory_id labels (the labels of a key the
\* runner started; never those of the unmanaged container), and with a project_id
\* argument only resources carrying that project's label appear.
C18_OnlyManagedListed ==
    \A c \in Callers :
        call[c].op = "get_jobs" =>
            \A i \in 1..Len(call[c].jobs) :
                LET job == call[c].jobs[i] IN
                /\ job.project_id # <<>> /\ job.trajectory_id # <<>>
                /\ job.id # <<Unmanaged.labels.project_id, Unmanaged.labels.trajectory_id>>
                /\ \E key \in keys : /\ job.project_id = sanitize_label(key[1])
                                     /\ job.trajectory_id = sanitize_label(key[2])
                /\ call[c].p # NoId => job.project_id = sanitize_label(call[c].p)

\* get_jobs(project_id) reported that project's job while the engine held the
\* unmanaged container, the one without trajectory label and another project's job
C18_Witness ==
    \E c \in Callers :
        /\ Returned(c, "get_jobs")
        /\ call[c].p = P1
        /\ call[c].jobs # <<>>
        /\ Foreign \subseteq containers
        /\ \E k \in containers : k.labels.project_id = sanitize_label(P2)

\* the containers start_job created for key before the call of c began
StartedBefore(c, key) ==
    {k \in containers : /\ k.labels = create_labels(key[1], key[2])
                        /\ k.id > 0 /\ k.id < call[c].mark}

\* C19: for every job started with (project_id, trajectory_id) whose resource is
\* in the engine throughout a get_jobs(project_id) call whose commands all
\* succeed, the result holds a JobInfo whose project_id and trajectory_id are
\* the values passed to start_job and whose id is project_id:trajectory_id.
C19_IdentityRoundTrip ==
    \A c \in Callers :
        Returned(c, "get_jobs") /\ call[c].p # NoId /\ call[c].bad = {} =>
            \A key \in keys :
                key[1] = call[c].p /\ StartedBefore(c, key) # {} =>
                    \E i \in 1..Len(call[c].jobs) :
                        /\ call[c].jobs[i].project_id = key[1]
                        /\ call[c].jobs[i].trajectory_id = key[2]
                        /\ call[c].jobs[i].id = <<key[1], key[2]>>

\* the inspect commands of the call
Inspects(c) == SelectSeq(call[c].cmds, LAMBDA x : x.cmd = "inspect")

\* the value the operation of c returns when an engine command fails
SafeValue(c) ==
    CASE call[c].op = "get_job_status" -> call[c].ret = None
      [] call[c].op = "job_exists" -> call[c].ret = "False"
      [] call[c].op = "get_jobs" -> call[c].ret = "list" /\ call[c].jobs = <<>>
      [] call[c].op \in {"cancel_job", "cleanup_job", "cancel_project"} -> call[c].ret = "void"
      [] call[c].op = "get_job_logs" -> call[c].ret = None
      [] call[c].op = "get_job_details" -> call[c].ret = None /\ call[c].details = {}
      [] call[c].op = "get_runner_info" -> call[c].ret = RunnerInfo(1)
      [] OTHER -> FALSE

\* C15 as stated: an operation other than start_job, some engine command of which
\* failed, raises nothing and returns its safe value: absent, false, an empty list
\* or void (for get_runner_info, the RunnerInfo with status ERROR).
C15_Original ==
    \A c \in Callers :
        call[c].pc = "done" /\ call[c].op # "start_job" /\ call[c].bad # {} =>
            call[c].ret # "raised" /\ SafeValue(c)

\* C15 as amended: an operation other than start_job never raises; it returns its
\* safe value when the command that decides its result fails, get_jobs leaves out
\* the rows whose inspect fails, get_job_details leaves out the logs when only the
\* logs command fails.
C15_NoRaiseSafeOrPartial ==
    \A c \in Callers :
        call[c].pc = "done" /\ call[c].op # "start_job" /\ call[c].bad # {} =>
            /\ call[c].ret # "raised"
            /\ CASE call[c].op = "get_jobs" ->
                        /\ call[c].ret = "list"
                        /\ "ps" \in call[c].bad => call[c].jobs = <<>>
                        /\ "inspect" \in call[c].bad =>
                               Len(call[c].jobs) < Len(Inspects(c))
                 [] call[c].op = "get_job_details" ->
                        /\ "inspect" \in call[c].bad => SafeValue(c)
                        /\ "inspect" \notin call[c].bad =>
                               /\ call[c].ret = "details"
                               /\ \A d \in call[c].details : d.logs = None
                 [] OTHER -> SafeValue(c)

\* get_job_details returned the details although its logs command failed
C15_Witness ==
    \E c \in Callers :
        /\ Returned(c, "get_job_details")
        /\ call[c].bad = {"logs"}
        /\ call[c].ret = "details"

\* C20: every JobInfo get_jobs builds has ended_at set if and only if its status is
\* COMPLETED, FAILED or CANCELED; with PENDING, RUNNING or STOPPED it has none.
C20_EndedAtIffTerminal ==
    \A c \in Callers :
        call[c].op = "get_jobs" =>
            \A i \in 1..Len(call[c].jobs) :
                LET job == call[c].jobs[i] IN
                /\ job.ended_at <=> job.status \in {COMPLETED, FAILED, CANCELED}
                /\ job.status \in {PENDING, RUNNING, STOPPED} => ~job.ended_at

\* a finished job listed with ended_at
C20_Witness ==
    \E c \in Callers :
        /\ Returned(c, "get_jobs")
        /\ \E i \in 1..Len(call[c].jobs) :
            call[c].jobs[i].status = COMPLETED /\ call[c].jobs[i].ended_at

\* the JobDetails that get_job_details has returned to caller c
ReturnedDetails(c) ==
    IF call[c].op = "get_job_details" /\ call[c].pc = "done" /\ call[c].ret = "details"
    THEN call[c].details ELSE {}

\* C21: every JobDetails that get_job_details returns with status FAILED has an
\* error section and an error summary, and the section's exit_code is the exit
\* code the engine reported for the resource when it reported that status; a
\* JobDetails with any other status has neither.
C21_FailedHasMatchingError ==
    \A c \in Callers : \A d \in ReturnedDetails(c) :
        IF d.status = FAILED
        THEN /\ d.error # {}
             /\ d.summary # {}
             /\ \A e \in d.error : e.exit_code = call[c].code
        ELSE d.error = {} /\ d.summary = {}

\* the names the claim calls credential-looking: forwarded by start_job as a
\* credential, or containing PASSWORD or SECRET
CredentialLooking(key) ==
    IsForwarded(key) \/ Contains(key, "PASSWORD") \/ Contains(key, "SECRET")

\* C22: for two engine states that differ only in the value of a
\* credential-looking environment variable, get_job_details returns identical
\* JobDetails, in which that variable's value is the fixed placeholder.
C22_CredentialValueNeverShown ==
    (mapOut # <<>> /\ CredentialLooking(mapIn.key)) =>
        /\ mapOut[1] = mapOut[2]
        /\ mapOut[1].environment[mapIn.key] = <<Placeholder>>

Lower(text) == [i \in 1..Len(text) |-> LowerChar(text[i])]

\* the parts make a url of the form scheme://(localhost|127.0.0.1)[:port][/path]
OfLocalhostForm(parts) ==
    /\ parts.scheme # <<>>
    /\ Lower(parts.host) \in {Localhost, Loopback}
    /\ \/ parts.port = <<>>
       \/ /\ Len(parts.port) >= 2
          /\ parts.port[1] = ":"
          /\ \A i \in 2..Len(parts.port) : parts.port[i] \in Digits
    /\ parts.rest = <<>> \/ parts.rest[1] = "/"

\* C23: for every URL of the form scheme://(localhost|127.0.0.1)[:port][/path],
\* in any letter case, the rewrite returns the same scheme, port and path with
\* only the host replaced by the in-container host alias.
C23_LocalhostFormRewritten ==
    (mapOut # NotConverted /\ OfLocalhostForm(mapIn)) =>
        mapOut = mapIn.scheme \o HostAlias \o mapIn.port \o mapIn.rest

\* C24: the rewrite returns its input unchanged for every input that is not of
\* the form scheme://(localhost|127.0.0.1)[:port][/path].
C24_OtherInputUnchanged ==
    (mapOut # NotConverted /\ ~OfLocalhostForm(mapIn)) =>
        mapOut = UrlOf(mapIn)

\* the operations that only ask the engine
QueryOps ==
    {"get_jobs", "get_job_status", "job_exists", "get_job_logs", "get_job_details",
     "get_runner_info"}

\* caller c takes a step of operation op
StepOf(c, op) == call'[c] # call[c] /\ call'[c].op = op

\* the ids of the containers the step adds to the engine
CreatedIds == {k.id : k \in containers'} \ {k.id : k \in containers}

\* C25: a resource is created only by a step of start_job, and every step of
\* get_jobs, get_job_status, job_exists, get_job_logs, get_job_details and
\* get_runner_info leaves the engine's resource set and every resource's state
\* unchanged.
C25_QueriesLeaveEngineUnchanged ==
    [][/\ CreatedIds # {} => \E c \in Callers : StepOf(c, "start_job")
       /\ \A c \in Callers : \A op \in QueryOps :
            StepOf(c, op) => containers' = containers /\ nextId' = nextId]_vars

\* get_job_details, with the logs it fetched, has returned on a container that
\* start_job created and that is still running
C25_Witness ==
    /\ \E d \in ReturnedDetails("c2") : d.status = RUNNING /\ d.logs = "logs"
    /\ Returned("c1", "start_job") /\ call["c1"].ret = "True"
    /\ \E k \in containers : k.id = call["c1"].cid /\ StatusOf(k) = RUNNING

\* the containers the step stops, marks for removal or removes: the engine's own
\* exit of a workload is none of these
Destroyed ==
    {k \in containers :
        \/ \A k2 \in containers' : k2.id # k.id
        \/ \E k2 \in containers' :
              k2.id = k.id /\ k2 # k /\ k2 \in {Stopped(k), Removing(k)}}

TeardownOps == {"cleanup_job", "cancel_job", "cancel_project"}

\* C26 as stated: a resource is stopped or removed only by a step of cleanup_job
\* or cancel_job; no other operation of the runner, and no timeout or time-to-live
\* inside it, stops or removes one.
C26_Original ==
    [][Destroyed # {} => \E c \in Callers : \E op \in TeardownOps : StepOf(c, op)]_vars

\* C26, amended: a resource is stopped or removed only by a step of cleanup_job or
\* cancel_job, or by a step of a start_job for the resource's own key that found
\* an existing resource in status COMPLETED, FAILED or PENDING.
C26_DestroyedByTeardownOrRestart ==
    [][\A k \in Destroyed :
          \E c \in Callers :
              \/ \E op \in TeardownOps : StepOf(c, op)
              \/ /\ StepOf(c, "start_job")
                 /\ k.name = Name(c)
                 /\ call[c].status \in Restartable]_vars

\* a start_job that found the key's resource COMPLETED has removed it and
\* started a new one
C26_Witness ==
    \E c \in Callers :
        /\ Returned(c, "start_job")
        /\ call[c].status = COMPLETED
        /\ call[c].cleaned = "True"
        /\ call[c].old # 0
        /\ \A k \in containers : k.id # call[c].old
        /\ call[c].ret = "True"

\* caller c is in start_job, past an existence check that found no resource,
\* and has not issued its create command yet
PastCheck(c) ==
    /\ call[c].op = "start_job"
    /\ call[c].pc = "sj_run"
    /\ ~call[c].exists
    /\ ~HasCmd(c, "run")

\* C27: the start protocol is check-then-act. A start_job that is past its
\* existence check issues the create command for the key's resource name at its
\* next step, whatever has happened to the name since the check; and two
\* start_job calls for one key can both be past the check before either has
\* created the resource (C27_Witness), so that both issue a create command for
\* the same name.
C27_CheckThenAct ==
    [][\A c \in Callers :
          (PastCheck(c) /\ call'[c] # call[c]) =>
              call'[c].cmds = Append(call[c].cmds, Cmd(c, "run"))]_vars

\* both callers are past the existence check for the same key and the engine has
\* never created a container
C27_Witness ==
    /\ PastCheck("c1") /\ PastCheck("c2")
    /\ Name("c1") = Name("c2")
    /\ call["c1"].p = call["c2"].p /\ call["c1"].t = call["c2"].t
    /\ containers = {} /\ nextId = 1

\* C28: the resource name derived from (project_id, trajectory_id) is
\* deterministic and injective: two keys yield the same name exactly when they
\* are the same key.
C28_NameInjective ==
    mapOut # <<>> => ((mapOut[1] = mapOut[2]) <=> (mapIn[1] = mapIn[2]))

\* C29: no step of a start_job stops or removes a resource whose status is
\* RUNNING when the stop or remove is issued, under any interleaving with other
\* start_job calls for the key and with the engine's own transitions.
C29_StartNeverStopsRunning ==
    [][\A c \in Callers :
          StepOf(c, "start_job") => \A k \in Destroyed : StatusOf(k) # RUNNING]_vars

\* the start_job calls of c and d, for one key, have both returned and overlapped:
\* the status check of d found, in state created, the container that the call of
\* c had created and went on to start
OverlappedStarts(c, d) ==
    /\ c # d
    /\ Returned(c, "start_job") /\ Returned(d, "start_job")
    /\ call[c].p = call[d].p /\ call[c].t = call[d].t
    /\ HasCmd(c, "run") /\ call[c].cid # 0
    /\ call[d].status = PENDING /\ call[d].old = call[c].cid

\* C30: among start_job calls for one key whose executions overlap, at most one
\* returns true, and the resource created by the call that returned true still
\* exists when all of them have returned.
C30_OneWinnerKeepsResource ==
    \A c \in Callers : \A d \in Callers :
        OverlappedStarts(c, d) =>
            /\ ~(call[c].ret = "True" /\ call[d].ret = "True")
            /\ call[c].ret = "True" => \E k \in containers : k.id = call[c].cid

\* one stop and then one remove, each over the whole set of listed ids
BatchedStopThenRemove(c) ==
    <<[cmd |-> "stop", name |-> NoName, ids |-> call[c].ids],
      [cmd |-> "rm", name |-> NoName, ids |-> call[c].ids]>>

\* C31: a bulk cancel whose listing returned N >= 1 resource ids has, when it
\* returns, issued exactly one stop and then exactly one remove, each carrying
\* all N ids, and no other stop or remove; a bulk cancel whose listing returned
\* no id has issued neither.
C31_BulkCancelBatched ==
    \A c \in Callers :
        Returned(c, "cancel_project") =>
            Teardown(c) = IF call[c].ids # {} THEN BatchedStopThenRemove(c) ELSE <<>>

\* a bulk cancel that listed two resources has returned
C31_Witness ==
    \E c \in Callers :
        /\ Returned(c, "cancel_project")
        /\ Cardinality(call[c].ids) = 2
        /\ Len(Teardown(c)) = 2

\* start_job has returned false to caller c
RefusedStart(c) == Returned(c, "start_job") /\ call[c].ret = "False"

\* C32 as stated: start_job returns false only when the key's resource is RUNNING
\* at its status check or when the create command exits non-zero; it never
\* returns false without a create command for a terminal or absent resource.
C32_Original ==
    \A c \in Callers :
        RefusedStart(c) => call[c].status = RUNNING \/ "run" \in call[c].bad

\* C32, amended: start_job returns false only when, its existence check having
\* found a resource, the status check returns anything other than COMPLETED,
\* FAILED or PENDING (RUNNING, STOPPED, or absent because the inspect failed or
\* the resource has gone), in which case no create command is issued, or when the
\* create command exits non-zero.
C32_FalseWhenNotRestartableOrCreateFails ==
    \A c \in Callers :
        RefusedStart(c) =>
            \/ call[c].exists /\ call[c].status \notin Restartable /\ ~HasCmd(c, "run")
            \/ "run" \in call[c].bad

\* start_job has returned false without a create command because its status
\* inspect failed, while the key's resource is terminal
C32_Witness ==
    \E c \in Callers :
        /\ RefusedStart(c)
        /\ call[c].exists /\ call[c].status = None
        /\ ~HasCmd(c, "run")
        /\ \E k \in ByName(Name(c)) : StatusOf(k) \in {COMPLETED, FAILED}

\* caller c is inside start_job
InStartJob(c) == call[c].op = "start_job" /\ call[c].pc # "done"

\* start_job has returned, having found the key's resource finished, with every
\* engine command it issued exiting zero
RestartedCleanly(c) ==
    /\ Returned(c, "start_job")
    /\ call[c].status \in {COMPLETED, FAILED}
    /\ call[c].bad = {}

\* C33: a finished job can always be restarted. With no other caller acting on the
\* key, a start_job in flight returns; and when it found the key's resource
\* COMPLETED or FAILED and every engine command succeeded, it has removed the old
\* resource, created a new one and returned true, leaving exactly one resource
\* for the key.
C33_FinishedJobRestarts ==
    /\ [](RestartedCleanly("c1") =>
            /\ call["c1"].ret = "True"
            /\ call["c1"].old # 0
            /\ \A k \in containers : k.id # call["c1"].old
            /\ OfKey(call["c1"].p, call["c1"].t) =
                   {k \in containers : k.id = call["c1"].cid}
            /\ Cardinality(OfKey(call["c1"].p, call["c1"].t)) = 1)
    /\ (InStartJob("c1") ~> Returned("c1", "start_job"))

\* a start_job that found the resource FAILED has replaced it by a running one
C33_Witness ==
    /\ RestartedCleanly("c1")
    /\ call["c1"].status = FAILED
    /\ call["c1"].ret = "True"
    /\ \E k \in containers : k.id = call["c1"].cid /\ StatusOf(k) = RUNNING

\* C34: the status of a JobDetails returned by get_job_details is the status
\* the mapper gives for the State recorded in the raw payload of that same
\* JobDetails, also when the engine changes the resource's state during the call.
C34_StatusMatchesRawState ==
    \A c \in Callers : \A d \in ReturnedDetails(c) :
        d.status = StatusOf(d.raw_data)

\* caller c takes one turn of the loop of get_jobs
LoopTurn(c) == call[c].pc = "gj_inspect" /\ call'[c] # call[c]

\* C35: get_jobs skips, without raising, every listed resource whose status comes
\* back absent, in particular one that a concurrent cancel_job or cleanup_job
\* removed between the list command and its inspect, and still returns a JobInfo
\* for every other listed resource: a turn of the loop on a line whose resource
\* is gone leaves the jobs as they are and goes on with the next line, and a turn
\* on a line whose status is read adds the JobInfo of that line.
C35_AbsentSkippedOthersReturned ==
    [][\A c \in Callers :
        LoopTurn(c) =>
            LET line == Head(call[c].lines)
                there == ByName(line.name)
            IN  /\ call'[c].lines = Tail(call[c].lines)
                /\ call'[c].ret \in {None, "list"}
                /\ call'[c].pc = "done" => call'[c].ret = "list"
                /\ there = {} => call'[c].jobs = call[c].jobs
                /\ (/\ there # {}
                    /\ line.project_id # <<>> /\ line.trajectory_id # <<>>
                    /\ "inspect" \notin call'[c].bad) =>
                        \E k \in there :
                            call'[c].jobs = Append(call[c].jobs, JobInfo(line, StatusOf(k)))]_vars

\* get_jobs listed two jobs; cancel_job removed one of them before its inspect,
\* and get_jobs returned the JobInfo of the other one
C35_Witness ==
    /\ Returned("c2", "get_jobs")
    /\ call["c2"].ret = "list"
    /\ ~call["c2"].existed
    /\ Len(call["c2"].jobs) = 1
    /\ Cardinality({i \in 1..Len(call["c2"].cmds) : call["c2"].cmds[i].cmd = "inspect"}) = 2
    /\ Returned("c1", "cancel_job")

\* C36: cancel_job(project_id) with trajectory_id omitted never stops or removes
\* a resource that was started under a different project_id, for every pair of
\* distinct project ids (those sanitization changes included): no step of the
\* call changes a container started under another project.
C36_BulkCancelSparesOtherProjects ==
    [][\A c \in Callers :
        (call[c].op = "cancel_project" /\ call'[c] # call[c]) =>
            \A key \in keys :
                key[1] # call[c].p =>
                    \A k \in containers : k.id = BulkId(key) => k \in containers']_vars

\* the create command has been composed
Launched == mapOut # NotLaunched

\* a limit is set
IsSet(v) == v \notin {None, ""}

\* the limit in effect: the per-call value when set, else the runner default
Effective(per_call, default) == IF IsSet(per_call) THEN per_call ELSE default

\* the values of the flag in the memory flags of the composed command
FlagValues(flag) ==
    LET Is(pair) == pair[1] = flag
        found == SelectSeq(mapOut[1].memory, Is)
    IN  [i \in 1..Len(found) |-> found[i][2]]

ArchFamily(a) == IF a \in {"arm64", "aarch64", "ARM64", "AARCH64"} THEN "arm" ELSE "x86"

\* C38: start_job passes a platform override only when the host architecture and
\* the configured image architecture diverge; for every pair in which they are
\* the same the create command carries no platform flag.
C38_PlatformOnlyWhenDiverging ==
    Launched =>
        /\ mapOut[1].platform # <<>> =>
                ArchFamily(mapIn.machine) # ArchFamily(mapIn.architecture)
        /\ ArchFamily(mapIn.machine) = ArchFamily(mapIn.architecture) =>
                mapOut[1].platform = <<>>

\* the steps of the entrypoint the claim names
MainSteps ==
    LET Main(s) == s.step \in {"update-moatless.sh --branch", "git checkout",
                               "uv sync", "uv run -"}
    IN  SelectSeq(mapOut[1].run_command, Main)

\* C39: the entrypoint is the ordered sequence: self-update step (present if and
\* only if update-on-start is enabled and no source tree is mounted), checkout of
\* the task's base commit, dependency sync, invocation of the job function with
\* its serialized arguments; with a source tree mounted there is no self-update
\* step.
C39_EntrypointOrder ==
    Launched =>
        LET update == mapIn.update_on_start /\ ~mapOut[1].source_mounted
            rest == IF update THEN Tail(MainSteps) ELSE MainSteps
        IN  /\ update => Head(MainSteps).step = "update-moatless.sh --branch"
            /\ [i \in 1..Len(rest) |-> rest[i].step] = <<"git checkout", "uv sync", "uv run -">>
            /\ "base_commit" \in DOMAIN mapIn.instance_tmp =>
                    rest[1].arg = mapIn.instance_tmp.base_commit
            /\ rest[3].arg = <<mapIn.project_id, mapIn.trajectory_id, "module.func">>
            /\ mapOut[1].source_mounted =>
                    \A i \in 1..Len(mapOut[1].run_command) :
                        mapOut[1].run_command[i].step # "update-moatless.sh --branch"

\* update-on-start is enabled and no source tree is mounted: the entrypoint
\* begins with the self-update step
C39_Witness ==
    /\ Launched
    /\ mapIn.update_on_start /\ ~mapOut[1].source_mounted
    /\ Len(MainSteps) = 4
    /\ MainSteps[1].step = "update-moatless.sh --branch"

\* the name ends in API_KEY or starts with AWS_, GCP_ or AZURE_
NamedAsCredential(key) ==
    key[Len(key)] = "API_KEY" \/ key[1] = "AWS_" \/ key[1] = "GCP_" \/ key[1] = "AZURE_"

\* the names of the fixed operational variables and of REDIS_URL
OperationalNames ==
    {<<"PROJECT_ID">>, <<"TRAJECTORY_ID">>, <<"JOB_FUNC">>, <<"MOATLESS_DIR">>,
     <<"MOATLESS_SOURCE_DIR">>, <<"NLTK_DATA">>, <<"INDEX_STORE_DIR">>, <<"REPO_DIR">>,
     <<"SKIP_CONDA_ACTIVATE">>, <<"INSTANCE_PATH">>, <<"VIRTUAL_ENV">>, <<"UV_NO_VENV">>,
     <<"REPO_PATH">>, <<"MOATLESS_COMPONENTS_PATH">>, <<"PYTHONPATH">>, <<"REDIS_URL">>}

\* the entries of the job's environment
JobEnv == {mapOut[1].env[i] : i \in 1..Len(mapOut[1].env)}

\* C40: start_job forwards a host environment variable into the job's environment
\* if and only if its name ends in API_KEY or starts with AWS_, GCP_ or AZURE_
\* (REDIS_URL and the fixed operational variables aside), each with its host
\* value unchanged; no other host variable is forwarded.
C40_CredentialsForwarded ==
    Launched =>
        /\ \A i \in 1..Len(mapIn.environ) :
            LET v == mapIn.environ[i] IN
            v.key \notin OperationalNames =>
                IF NamedAsCredential(v.key)
                THEN \A e \in JobEnv : KeyOf(e) = v.key <=> e = EnvEntry(v.key, v.value)
                ELSE \A e \in JobEnv : KeyOf(e) # v.key
        /\ \A i \in 1..Len(mapIn.environ) :
            LET v == mapIn.environ[i] IN
            (v.key \notin OperationalNames /\ NamedAsCredential(v.key)) =>
                EnvEntry(v.key, v.value) \in JobEnv
        /\ \A e \in JobEnv :
            \/ KeyOf(e) \in OperationalNames
            \/ KeyOf(e)[1] = "OTEL_"
            \/ \E i \in 1..Len(mapIn.environ) :
                /\ NamedAsCredential(mapIn.environ[i].key)
                /\ e = EnvEntry(mapIn.environ[i].key, mapIn.environ[i].value)

\* the host holds a credential whose value contains "=" and a variable with AWS_
\* inside its name: the first is in the job's environment, the second is not
C40_Witness ==
    /\ Launched
    /\ \E i \in 1..Len(mapIn.environ) :
        /\ mapIn.environ[i].key = <<"AWS_", "SECRET", "_ACCESS_KEY">>
        /\ Eq \in {mapIn.environ[i].value[j] : j \in 1..Len(mapIn.environ[i].value)}
        /\ EnvEntry(mapIn.environ[i].key, mapIn.environ[i].value) \in JobEnv
    /\ \E i \in 1..Len(mapIn.environ) :
        /\ mapIn.environ[i].key = <<"MY_", "AWS_", "REGION">>
        /\ \A e \in JobEnv : KeyOf(e) # mapIn.environ[i].key

====
